---- MODULE Spec2Model ----
(***************************************************************************)
(* A model of the Polymarket feed client (WebSocketManager), the order     *)
(* book store it maintains, and the arbitrage bot's update callback.       *)
(*                                                                         *)
(* Prices and sizes are Python floats in the source; here a float is the   *)
(* integer number of hundredths it denotes (0.47 is 47, 100.0 is 10000).   *)
(* Times are whole seconds.  Instead of absolute clock readings the model  *)
(* keeps, for each stored timestamp, the time elapsed since it, saturated  *)
(* at the constant it is compared with.                                    *)
(*                                                                         *)
(* Further components, each with a specification of its own over the same  *)
(* variables: the frame handler, the arbitrage engine, the inventory-skew  *)
(* quoting strategy, the simulated trade ledger, the market maker's update *)
(* handler, the order executor, the store and ledger with their readers,   *)
(* subscribe_to_markets, the two trading modes, the rate limiter and       *)
(* with_exponential_backoff.  The quoting strategy and the ledger count    *)
(* prices in ten-thousandths of a dollar; the rate limiter keeps absolute  *)
(* clock readings.                                                         *)
(***************************************************************************)
EXTENDS Integers, Sequences, FiniteSets, TLC

\* ---------------------------------------------------------------- bounds
\* Frames the feed delivers in one run.
MaxFrames == 2
\* Consecutive transport errors counted by the observer (saturating).
MaxFails == 5
\* Calls made in one run of a component specification.
MaxCalls == 3

\* ------------------------------------------------------ program constants
InitialReconnectDelay == 5
MaxReconnectDelay == 60
PingInterval == 10
PollTimeout == 1
MaxWsSubscriptions == 2
TriggerThreshold == 98
MinProfitThreshold == 2
FixedInvestmentAmount == 50
MinUsdcBalance == 100
OpportunityCooldown == 5
MaxAgeSeconds == 2

Min(a, b) == IF a <= b THEN a ELSE b

\* ---------------------------------------------------------------- markets
Market(c, y, n) == [condition_id |-> c, yes_token_id |-> y, no_token_id |-> n]
M1 == Market("m1", "a1", "a2")
M2 == Market("m2", "a3", "a4")
M3 == Market("m3", "a5", "a6")

\* The lists of markets handed to subscribe_to_markets.
SubscribeRequests == { <<M1>>, <<M2>>, <<M1, M2>>, <<M1, M2, M3>> }

\* The markets the bot's market manager has cached (get_market).
KnownMarkets == { M1, M2 }

\* ------------------------------------------------------------ feed frames
Missing == "<missing>"

\* The numeric literals the feed uses; float() of anything else raises.
NumericLiterals == { "0", "0.45", "0.46", "0.47", "0.49", "0.50", "100" }

float(s) ==
    CASE s = "0" -> 0
      [] s = "0.45" -> 45
      [] s = "0.46" -> 46
      [] s = "0.47" -> 47
      [] s = "0.49" -> 49
      [] s = "0.50" -> 50
      [] s = "100" -> 10000

\* float(s) raises ValueError (a malformed number) or TypeError (None).
FloatRaises(s) == s \notin NumericLiterals

\* Python truthiness of a decoded JSON string field.
Truthy(s) == s # "" /\ s # Missing

L(p) == [price |-> p, size |-> "100"]
Change(a, bb, ba) == [asset_id |-> a, best_bid |-> bb, best_ask |-> ba, size |-> "100"]

Frame(j, t, m, a, bs, as, pcs) ==
    [json |-> j, event_type |-> t, market |-> m, asset_id |-> a,
     bids |-> bs, asks |-> as, price_changes |-> pcs]

BookFrame(m, a, bs, as) == Frame(TRUE, "book", m, a, bs, as, <<>>)
PriceChangeFrame(m, pcs) == Frame(TRUE, "price_change", m, "", <<>>, <<>>, pcs)
OtherFrame(t) == Frame(TRUE, t, "m1", "a1", <<L("0.45")>>, <<L("0.46")>>, <<Change("a1", "0.45", "0.46")>>)
BadJsonFrame == Frame(FALSE, Missing, "", "", <<>>, <<>>, <<>>)

FeedFrames ==
    { BadJsonFrame,
      BookFrame("m1", "a1", <<L("0.45")>>, <<L("0.47"), L("0.50")>>),
      BookFrame("m1", "a1", <<>>, <<L("0")>>),
      BookFrame("m1", "a2", <<L("0.46"), L("0.45")>>, <<L("0.49")>>),
      BookFrame("m1", "a1", <<L("abc")>>, <<L("0.47")>>),
      PriceChangeFrame("m1", <<Change("a1", "0.46", "0.47"), Change("a2", "abc", "0.49")>>),
      PriceChangeFrame("m1", <<Change("a2", "0.45", "abc"), Change("a1", "0.46", "0.47")>>),
      PriceChangeFrame("m1", <<Change("a1", "0", "0.47")>>),
      PriceChangeFrame("m1", <<Change("a1", Missing, "0.47")>>),
      OtherFrame("last_trade_price"),
      OtherFrame("tick_size_change"),
      OtherFrame("new_event_kind"),
      OtherFrame(Missing) }

Assets == { "a1", "a2" }

\* ------------------------------------------------------ OrderbookSnapshot
RECURSIVE OrdersRaise(_)
OrdersRaise(orders) ==
    IF orders = <<>> THEN FALSE
    ELSE FloatRaises(Head(orders).price) \/ FloatRaises(Head(orders).size)
         \/ OrdersRaise(Tail(orders))

\* _parse_orders: every level's price and size through float(), in order.
ParseOrders(orders) ==
    [i \in 1..Len(orders) |-> [price |-> float(orders[i].price), size |-> float(orders[i].size)]]

SnapshotRaises(bids, asks) == OrdersRaise(bids) \/ OrdersRaise(asks)
\* Variant: only the top level of each side is kept.
OrderbookSnapshot_TopOnly(bids, asks) ==
    [bids |-> SubSeq(ParseOrders(bids), 1, IF bids = <<>> THEN 0 ELSE 1),
     asks |-> SubSeq(ParseOrders(asks), 1, IF asks = <<>> THEN 0 ELSE 1)]
OrderbookSnapshot(bids, asks) == [bids |-> ParseOrders(bids), asks |-> ParseOrders(asks)]

EmptyStore == [a \in {} |-> 0]
Put(ob, a, b) == [x \in (DOMAIN ob) \cup {a} |-> IF x = a THEN b ELSE ob[x]]

\* -------------------------------------------------------- ArbitrageEngine
\* The trading parameters of a Config the engine reads: thresholds in
\* hundredths, the investment in dollars, the cooldown in seconds.
TradingConfig(trigger, min_profit) ==
    [trigger_threshold |-> trigger, min_profit_threshold |-> min_profit,
     fixed_investment_amount |-> FixedInvestmentAmount,
     opportunity_cooldown |-> OpportunityCooldown]
\* Config with no environment override.
DefaultConfig == TradingConfig(TriggerThreshold, MinProfitThreshold)
\* The same with MIN_PROFIT_THRESHOLD=0.05 in the environment.
StricterProfit == 5
Configs == { DefaultConfig, TradingConfig(TriggerThreshold, StricterProfit) }

\* An exact quotient num / den in lowest terms (token counts are not whole
\* numbers); n >= 0 and d > 0.
RECURSIVE GCD(_, _)
GCD(a, b) == IF b = 0 THEN a ELSE GCD(b, a % b)
Quot(n, d) == [num |-> n \div GCD(n, d), den |-> d \div GCD(n, d)]

NoMarket == Market("", "", "")
NoOpp == [market |-> NoMarket, yes_price |-> 0, no_price |-> 0,
          implied_sum |-> 0, total_investment |-> 0,
          yes_size |-> Quot(0, 1), no_size |-> Quot(0, 1)]

\* get_best_prices: None unless both books are cached and both have an ask.
get_best_prices(ob, yes_token_id, no_token_id) ==
    IF yes_token_id \notin DOMAIN ob \/ no_token_id \notin DOMAIN ob
    THEN [found |-> FALSE, yes_ask |-> 0, no_ask |-> 0]
    ELSE IF ob[yes_token_id].asks = <<>> \/ ob[no_token_id].asks = <<>>
    THEN [found |-> FALSE, yes_ask |-> 0, no_ask |-> 0]
    ELSE [found |-> TRUE,
          yes_ask |-> ob[yes_token_id].asks[1].price,
          no_ask |-> ob[no_token_id].asks[1].price]

\* Variant: the token count is the leg's investment times its price.
LegSize_TimesPrice(total_investment, ask, implied_sum) ==
    Quot(total_investment * ask * ask, implied_sum * 100)

\* Lines 122-127 for one leg: investment = total * (ask / sum) dollars,
\* size = investment / ask tokens, the ask being ask / 100 dollars.
LegSize(total_investment, ask, implied_sum) ==
    Quot(total_investment * ask * 100, implied_sum * ask)

\* Variant: the cooldown test lets a call through one second early.
InCooldown_OneShort(config, elapsed) == elapsed + 1 < config.opportunity_cooldown

\* Line 114: now - last_opp < self.opportunity_cooldown.
InCooldown(config, elapsed) == elapsed < config.opportunity_cooldown

\* check_arbitrage_opportunity.  since[c] is the time elapsed since
\* last_opportunity_time[c], saturated at the cooldown (a market that never
\* triggered reads last_opp = 0, i.e. the cooldown has long elapsed).
\* kind is "none" (returns None), "raise" (ZeroDivisionError) or "opp".
check_arbitrage_opportunity(config, ob, since, market) ==
    LET prices == get_best_prices(ob, market.yes_token_id, market.no_token_id)
        yes_ask == prices.yes_ask
        no_ask == prices.no_ask
        implied_sum == yes_ask + no_ask
        total_investment == config.fixed_investment_amount
        none == [kind |-> "none", opp |-> NoOpp]
        raise == [kind |-> "raise", opp |-> NoOpp]
    IN  IF ~prices.found THEN none
        ELSE IF implied_sum >= config.trigger_threshold THEN none
        ELSE IF implied_sum = 0 THEN raise
        ELSE IF (100 - implied_sum) * 100 < config.min_profit_threshold * implied_sum THEN none
        ELSE IF InCooldown(config, since[market.condition_id]) THEN none
        ELSE IF yes_ask = 0 \/ no_ask = 0 THEN raise
        ELSE [kind |-> "opp",
              opp |-> [market |-> market, yes_price |-> yes_ask, no_price |-> no_ask,
                       implied_sum |-> implied_sum,
                       total_investment |-> total_investment,
                       yes_size |-> LegSize(total_investment, yes_ask, implied_sum),
                       no_size |-> LegSize(total_investment, no_ask, implied_sum)]]

\* Variant: one trigger time shared by all markets.
RecordTrigger_AllMarkets(since, market, kind) ==
    IF kind = "opp" THEN [m \in DOMAIN since |-> 0] ELSE since

\* last_opportunity_time after the call: set to now only on the path that
\* returns an opportunity (line 130).
RecordTrigger(since, market, kind) ==
    IF kind = "opp" THEN [since EXCEPT ![market.condition_id] = 0] ELSE since

\* validate_opportunity, age being time.time() - opportunity.timestamp.
validate_opportunity(config, ob, opportunity, age) ==
    LET prices == get_best_prices(ob, opportunity.market.yes_token_id,
                                  opportunity.market.no_token_id)
    IN  IF age > MaxAgeSeconds THEN FALSE
        ELSE IF ~prices.found THEN FALSE
        ELSE IF prices.yes_ask + prices.no_ask >= config.trigger_threshold THEN FALSE
        ELSE TRUE

\* --------------------------------- PolymarketArbitrageBot.on_orderbook_update
\* The callback up to its first await.  out is "return", "raise" (an
\* exception leaves the callback) or "await" (suspended in the balance check).
CallbackStart(ob, since, market_id) ==
    LET found == { m \in KnownMarkets : m.condition_id = market_id }
    IN  IF found = {} THEN [out |-> "return", since |-> since, opp |-> NoOpp]
        ELSE
          LET market == CHOOSE m \in found : TRUE
              r == check_arbitrage_opportunity(DefaultConfig, ob, since, market)
              triggered == RecordTrigger(since, market, r.kind)
          IN  IF r.kind = "none" THEN [out |-> "return", since |-> since, opp |-> NoOpp]
              ELSE IF r.kind = "raise" THEN [out |-> "raise", since |-> since, opp |-> NoOpp]
              ELSE IF ~validate_opportunity(DefaultConfig, ob, r.opp, 0)
                   THEN [out |-> "return", since |-> triggered, opp |-> NoOpp]
                   ELSE [out |-> "await", since |-> triggered, opp |-> r.opp]

\* ------------------------------------------------- frame dispatch (handlers)
\* What a handler works on: the store, the engine's cooldown timers, the two
\* observation logs, and where it stopped (susp: the callback is suspended
\* in an await; rest: the price changes still to process; raised: an
\* exception is propagating out of the handler).
Ctx(ob, since, mut, cb) ==
    [ob |-> ob, since |-> since, mut |-> mut, cb |-> cb, susp |-> FALSE,
     opp |-> NoOpp, rest |-> <<>>, market |-> "", raised |-> FALSE]

\* Variant: the callback is skipped for a book without bids.
StoreAndNotify_SkipsOneSided(d, reg, market, asset_id, book) ==
    LET entry == [market |-> market, asset_id |-> asset_id, book |-> book]
        ob2 == Put(d.ob, asset_id, book)
        r == CallbackStart(ob2, d.since, market)
    IN  IF ~reg \/ book.bids = <<>>
        THEN [d EXCEPT !.ob = ob2, !.mut = Append(@, entry)]
        ELSE [d EXCEPT !.ob = ob2, !.mut = Append(@, entry), !.cb = Append(@, entry),
                       !.since = r.since, !.susp = (r.out = "await"),
                       !.opp = r.opp, !.market = market]

\* self.orderbooks[asset_id] = orderbook, then the callback if one is set;
\* an exception raised by the callback is caught and logged right here.
StoreAndNotify(d, reg, market, asset_id, book) ==
    LET entry == [market |-> market, asset_id |-> asset_id, book |-> book]
        ob2 == Put(d.ob, asset_id, book)
        r == CallbackStart(ob2, d.since, market)
    IN  IF ~reg
        THEN [d EXCEPT !.ob = ob2, !.mut = Append(@, entry)]
        ELSE [d EXCEPT !.ob = ob2, !.mut = Append(@, entry), !.cb = Append(@, entry),
                       !.since = r.since, !.susp = (r.out = "await"),
                       !.opp = r.opp, !.market = market]

\* Variant: a level that fails to parse empties the cached book.
handle_book_event_StoresEmpty(d, reg, data) ==
    IF SnapshotRaises(data.bids, data.asks)
    THEN [d EXCEPT !.ob = Put(d.ob, data.asset_id, [bids |-> <<>>, asks |-> <<>>]),
                   !.raised = TRUE]
    ELSE StoreAndNotify(d, reg, data.market, data.asset_id,
                        OrderbookSnapshot(data.bids, data.asks))

handle_book_event(d, reg, data) ==
    IF SnapshotRaises(data.bids, data.asks)
    THEN [d EXCEPT !.raised = TRUE]
    ELSE StoreAndNotify(d, reg, data.market, data.asset_id,
                        OrderbookSnapshot(data.bids, data.asks))

\* Variant: a zero best_bid is kept as a level.
ChangeBids_KeepsZero(c) ==
    IF Truthy(c.best_bid)
    THEN << [price |-> c.best_bid, size |-> c.size] >> ELSE << >>

\* The one-level event_data built from a price change (lines 318-323).
ChangeBids(c) ==
    IF Truthy(c.best_bid) /\ float(c.best_bid) > 0
    THEN << [price |-> c.best_bid, size |-> c.size] >> ELSE << >>
ChangeAsks(c) ==
    IF Truthy(c.best_ask) /\ float(c.best_ask) > 0
    THEN << [price |-> c.best_ask, size |-> c.size] >> ELSE << >>

\* ValueError / TypeError inside the try of one price change.
ChangeRaises(c) ==
    \/ Truthy(c.best_bid) /\ FloatRaises(c.best_bid)
    \/ Truthy(c.best_ask) /\ FloatRaises(c.best_ask)
    \/ SnapshotRaises(ChangeBids(c), ChangeAsks(c))

RECURSIVE handle_price_changes(_, _, _, _)
handle_price_changes(d, reg, market, changes) ==
    IF changes = <<>> THEN d
    ELSE
      LET c == Head(changes)
          later == Tail(changes)
      IN  IF c.best_bid = Missing \/ c.best_ask = Missing
          THEN handle_price_changes(d, reg, market, later)
          ELSE IF ChangeRaises(c)
          THEN handle_price_changes(d, reg, market, later)
          ELSE
            LET d2 == StoreAndNotify(d, reg, market, c.asset_id,
                                     OrderbookSnapshot(ChangeBids(c), ChangeAsks(c)))
            IN  IF d2.susp THEN [d2 EXCEPT !.rest = later]
                ELSE handle_price_changes(d2, reg, market, later)

handle_price_change_event(d, reg, data) ==
    handle_price_changes(d, reg, data.market, data.price_changes)

\* Variant: a tick_size_change event is handled like a book event.
handle_message_TickAsBook(d, reg, message) ==
    IF ~message.json THEN d
    ELSE IF message.event_type \in { "book", "tick_size_change" }
         THEN [handle_book_event(d, reg, message) EXCEPT !.raised = FALSE]
    ELSE IF message.event_type = "price_change"
         THEN [handle_price_change_event(d, reg, message) EXCEPT !.raised = FALSE]
    ELSE d

\* Variant: a last_trade_price event is applied like a price change.
handle_message_TradeAsPriceChange(d, reg, message) ==
    IF ~message.json THEN d
    ELSE IF message.event_type = "book"
         THEN [handle_book_event(d, reg, message) EXCEPT !.raised = FALSE]
    ELSE IF message.event_type \in { "price_change", "last_trade_price" }
         THEN [handle_price_change_event(d, reg, message) EXCEPT !.raised = FALSE]
    ELSE d

\* _handle_message: json.loads, dispatch on event_type, and the two except
\* clauses that swallow whatever the decoding or a handler raised.
handle_message(d, reg, message) ==
    IF ~message.json THEN d
    ELSE IF message.event_type = "book"
         THEN [handle_book_event(d, reg, message) EXCEPT !.raised = FALSE]
    ELSE IF message.event_type = "price_change"
         THEN [handle_price_change_event(d, reg, message) EXCEPT !.raised = FALSE]
    ELSE d

\* The handler resumed each time the callback it awaits returns, up to its end.
RECURSIVE Finish(_, _)
Finish(d, reg) ==
    IF ~d.susp THEN d
    ELSE Finish(handle_price_changes([d EXCEPT !.susp = FALSE, !.rest = << >>],
                                     reg, d.market, d.rest), reg)

\* ============================================================ state machine
VARIABLES
    ws,                 \* self.ws: "none" (None), "open", or "closed" (a closed socket object)
    running,            \* self._running
    subscribed_assets,  \* self.subscribed_assets
    subscribed_markets, \* self.subscribed_markets
    orderbooks,         \* self.orderbooks: asset id -> snapshot
    on_book_update,     \* whether the bot's callback is registered
    pc,                 \* where the listen() coroutine is suspended
    reconnect_delay,    \* listen()'s local reconnect_delay
    sincePing,          \* time.time() - last_ping_time, saturated at PingInterval
    stopPc,             \* where the stop() coroutine is
    io,                 \* the downstream call the callback awaits: "none", "balance", "order"
    opp,                \* the opportunity held by the suspended callback
    rest,               \* price changes of the current frame not processed yet
    curMarket,          \* the market of the frame being processed
    sinceOpp,           \* per market: time since last_opportunity_time, saturated
    mutLog,             \* observer: every store mutation, in order
    cbLog,              \* observer: every callback invocation, in order
    nframes,            \* observer: frames received
    fails,              \* observer: consecutive transport errors handled by listen()
    subOnWire,          \* observer: asset ids of the last subscribe frame on the current socket
    arg,                \* component specifications: the call made last (operation and inputs)
    ret,                \* component specifications: what that call returned
    config,             \* component specifications: the Config the component was built with
    detected,           \* observer: per market, the last opportunity returned to a caller
    repeated,           \* observer: whether the last call repeated the one before it, and returned the same
    trade_logger,       \* the market maker's SimulatedTradeLogger object
    csv_file,           \* the rows of the trade log file it appends to
    executor,           \* the OrderExecutor: its counters and the orders it posted
    entry,              \* observer: per market, the average entry price of the open position
    maker,              \* the MarketMakerBot: per market, the time since last_quote_update
                        \* (saturated) and its local copy of the inventory
    components,         \* the components a bot's initialize() built, the paper
                        \* executor with its trades and the rows of its file
    limiter,            \* the RateLimiter: self.calls, the caller holding self._lock
                        \* in its sleep, and the clock time.time() reads
    backoff             \* one run of with_exponential_backoff: its locals and position

vars == << ws, running, subscribed_assets, subscribed_markets, orderbooks,
           on_book_update, pc, reconnect_delay, sincePing, stopPc, io, opp, rest,
           curMarket, sinceOpp, mutLog, cbLog, nframes, fails, subOnWire, arg, ret,
           config, detected, repeated, trade_logger, csv_file, executor, entry,
           maker, components, limiter, backoff >>

wsVars == << ws, subscribed_assets, subscribed_markets, subOnWire >>
dispatchVars == << orderbooks, io, opp, rest, curMarket, mutLog, cbLog >>
paperVars == << repeated, trade_logger, csv_file, executor, entry, maker, components,
               limiter, backoff >>
callVars == << arg, ret, config, detected, paperVars >>

\* No call was made: the value of arg and ret in the specification of the
\* whole client, which makes no call of its own.
NoCall == [op |-> "none"]

\* No opportunity was returned yet for any market.  returned: one was; since:
\* the time elapsed since then, saturated at the cooldown; changed: a book
\* of the market was replaced by a different one since then.
NoneDetected ==
    [m \in { k.condition_id : k \in KnownMarkets } |->
        [returned |-> FALSE, since |-> OpportunityCooldown, changed |-> FALSE]]

\* The last call repeated no call.
NoRepeat == [again |-> FALSE, same |-> FALSE]

\* SimulatedTradeLogger.__init__ before it looks at the log file.
NewTradeLogger ==
    [inventories |-> << >>, avg_buy_prices |-> << >>,
     cumulative_pnl |-> Quot(0, 1), total_trades |-> 0]

\* OrderExecutor.__init__, with no order handed to the exchange client yet.
NewExecutor ==
    [total_executions |-> 0, successful_executions |-> 0, failed_executions |-> 0,
     partial_fills |-> 0, posted |-> <<>>]

\* MarketMakerBot.__init__: no market loaded.
NewMaker == [sinceQuote |-> << >>, inventories |-> << >>]

\* PaperTradeExecutor: not constructed (None).
NoPaperExecutor == [built |-> FALSE, trades |-> << >>, rows |-> << >>]

\* A bot before initialize(): every component is None (bot.py:45-53,
\* market_maker_bot.py:51-58).
NoComponents ==
    [program |-> "none", initialized |-> FALSE, paper_trade_executor |-> NoPaperExecutor,
     balance_checker |-> FALSE, clob_client |-> FALSE, order_executor |-> FALSE]

\* RateLimiter.__init__ at time 0: no call recorded, the lock free.
NewLimiter == [calls |-> << >>, holder |-> 0, wake |-> 0, now |-> 0, granted |-> 0]

\* with_exponential_backoff not called.
NoBackoff == [pc |-> "idle"]

\* The components a specification does not exercise, as constructed.
PaperIdle ==
    /\ repeated = NoRepeat
    /\ trade_logger = NewTradeLogger
    /\ csv_file = <<>>
    /\ executor = NewExecutor
    /\ entry = << >>
    /\ maker = NewMaker
    /\ components = NoComponents
    /\ limiter = NewLimiter
    /\ backoff = NoBackoff

Init ==
    /\ ws = "none"
    /\ running = FALSE
    /\ subscribed_assets = <<>>
    /\ subscribed_markets = <<>>
    /\ orderbooks = EmptyStore
    /\ on_book_update = FALSE
    /\ pc = "idle"
    /\ reconnect_delay = InitialReconnectDelay
    /\ sincePing = 0
    /\ stopPc = "idle"
    /\ io = "none"
    /\ opp = NoOpp
    /\ rest = <<>>
    /\ curMarket = ""
    /\ sinceOpp = [m \in { k.condition_id : k \in KnownMarkets } |-> OpportunityCooldown]
    /\ mutLog = <<>>
    /\ cbLog = <<>>
    /\ nframes = 0
    /\ fails = 0
    /\ subOnWire = <<>>
    /\ arg = NoCall
    /\ ret = NoCall
    /\ config = DefaultConfig
    /\ detected = NoneDetected
    /\ PaperIdle

\* ------------------------------------------------------------------- time
Elapsed == { 0, 1 }
AdvancePing(sp, d) == Min(sp + d, PingInterval)
AdvanceOpp(since, d) == [m \in DOMAIN since |-> Min(since[m] + d, OpportunityCooldown)]

\* --------------------------------------------------- subscribe_to_markets
RECURSIVE CollectAssets(_)
CollectAssets(markets) ==
    IF markets = <<>> THEN <<>>
    ELSE LET m == Head(markets)
         IN  (IF m.yes_token_id # "" THEN <<m.yes_token_id>> ELSE <<>>)
             \o (IF m.no_token_id # "" THEN <<m.no_token_id>> ELSE <<>>)
             \o CollectAssets(Tail(markets))

RECURSIVE CollectMarkets(_)
CollectMarkets(markets) ==
    IF markets = <<>> THEN <<>>
    ELSE (IF Head(markets).condition_id # "" THEN <<Head(markets).condition_id>> ELSE <<>>)
         \o CollectMarkets(Tail(markets))

Take(seq, n) == SubSeq(seq, 1, Min(n, Len(seq)))

\* Variant: the list of asset ids is never cut.
LimitedAssets_Uncut(markets) == CollectAssets(markets)

\* The asset ids put in the subscribe frame (lines 128-146).
LimitedAssets(markets) ==
    IF Len(CollectAssets(markets)) > MaxWsSubscriptions * 2
    THEN Take(CollectAssets(markets), MaxWsSubscriptions * 2)
    ELSE CollectAssets(markets)
LimitedMarkets(markets) ==
    IF Len(CollectAssets(markets)) > MaxWsSubscriptions * 2
    THEN Take(CollectMarkets(markets), MaxWsSubscriptions)
    ELSE CollectMarkets(markets)

\* What subscribe_to_markets records after a successful send (lines 163-164).
RecordedAssets(old, asset_ids) == asset_ids

\* subscribe_to_markets(markets) with a successful (connect and) send, called
\* by the owner at any time before it calls stop().
Subscribe(markets) ==
    /\ stopPc = "idle"
    /\ ws # "closed"
    /\ ws' = "open"
    /\ subOnWire' = LimitedAssets(markets)
    /\ subscribed_assets' = RecordedAssets(subscribed_assets, LimitedAssets(markets))
    /\ subscribed_markets' = LimitedMarkets(markets)
    /\ UNCHANGED << running, orderbooks, on_book_update, pc, reconnect_delay,
                    sincePing, stopPc, io, opp, rest, curMarket, sinceOpp,
                    mutLog, cbLog, nframes, fails >>
    /\ UNCHANGED callVars

\* connect() called by the owner before listen() (bot.py:161).
ExtConnect ==
    /\ pc = "idle"
    /\ stopPc = "idle"
    /\ ws = "none"
    /\ ws' = "open"
    /\ subOnWire' = <<>>
    /\ UNCHANGED << running, subscribed_assets, subscribed_markets, orderbooks,
                    on_book_update, pc, reconnect_delay, sincePing, stopPc, io,
                    opp, rest, curMarket, sinceOpp, mutLog, cbLog, nframes, fails >>
    /\ UNCHANGED callVars

\* ws_manager.on_book_update = self.on_orderbook_update (bot.py:165).
RegisterCallback ==
    /\ pc = "idle"
    /\ stopPc = "idle"
    /\ ~on_book_update
    /\ on_book_update' = TRUE
    /\ UNCHANGED << ws, running, subscribed_assets, subscribed_markets, orderbooks,
                    pc, reconnect_delay, sincePing, stopPc, io, opp, rest,
                    curMarket, sinceOpp, mutLog, cbLog, nframes, fails, subOnWire >>
    /\ UNCHANGED callVars

\* The server or the network closes the connection.
TransportClose ==
    /\ ws = "open"
    /\ ws' = "closed"
    /\ UNCHANGED << running, subscribed_assets, subscribed_markets, orderbooks,
                    on_book_update, pc, reconnect_delay, sincePing, stopPc, io,
                    opp, rest, curMarket, sinceOpp, mutLog, cbLog, nframes,
                    fails, subOnWire >>
    /\ UNCHANGED callVars

\* ------------------------------------------------------------------ listen
\* Variant: the PING is sent only once more than the interval has elapsed.
PingPc_Late(sp) == IF sp > PingInterval THEN "pinging" ELSE "recv"

\* Lines 202-211 up to the next await: a PING is due or the loop goes on to recv.
PingPc(sp) == IF sp >= PingInterval THEN "pinging" ELSE "recv"

\* The while test and the loop body up to its first await.
TopPc(run, w, sp) ==
    IF ~run THEN "done"
    ELSE IF w = "none" THEN "connecting"
    ELSE PingPc(sp)

\* Variant: the loop has no catch-all clause; any other exception leaves listen().
ExceptPc_NoCatchAll(kind, run) ==
    IF kind = "closed"
    THEN (IF run THEN "sleep_cc" ELSE "done")
    ELSE "escaped"

\* The two except clauses of the loop (lines 230-247): where listen() is next.
\* kind is "closed" (ConnectionClosed) or "error" (any other Exception).

ExceptPc(kind, run) ==
    IF kind = "closed"
    THEN (IF run THEN "sleep_cc" ELSE "done")
    ELSE (IF run THEN "sleep_exc" ELSE "done")

\* Variant: the doubling is not capped at the maximum delay.
DelayAfterSleep_Uncapped(kind, delay) ==
    IF kind = "closed" THEN delay * 2 ELSE delay

\* reconnect_delay after the sleep of a handler (lines 238-241, 247).
DelayAfterSleep(kind, delay) ==
    IF kind = "closed" THEN Min(delay * 2, MaxReconnectDelay) ELSE delay

CountFail(n) == Min(n + 1, MaxFails)

\* Variant: listen() goes on to the PING check without replaying the subscription.
AfterConnectPc_NoReplay(assets, sp) == PingPc(sp)

\* After listen()'s own connect() (lines 192-200): the subscribe frame is sent
\* next when a subscription set is recorded, otherwise the PING check follows.
AfterConnectPc(assets, sp) == IF assets # <<>> THEN "resub" ELSE PingPc(sp)

StartListen ==
    /\ pc = "idle"
    /\ running' = TRUE
    /\ reconnect_delay' = InitialReconnectDelay
    /\ sincePing' = 0
    /\ pc' = TopPc(TRUE, ws, 0)
    /\ UNCHANGED << wsVars, dispatchVars, on_book_update, stopPc, sinceOpp,
                    nframes, fails >>
    /\ UNCHANGED callVars

ConnectOk ==
    /\ pc = "connecting"
    /\ ws' = "open"
    /\ subOnWire' = <<>>
    /\ pc' = AfterConnectPc(subscribed_assets, sincePing)
    /\ UNCHANGED << running, subscribed_assets, subscribed_markets, dispatchVars,
                    on_book_update, reconnect_delay, sincePing, stopPc, sinceOpp,
                    nframes, fails >>
    /\ UNCHANGED callVars

ConnectFail ==
    /\ pc = "connecting"
    /\ pc' = ExceptPc("error", running)
    /\ fails' = CountFail(fails)
    /\ UNCHANGED << wsVars, running, dispatchVars, on_book_update, reconnect_delay,
                    sincePing, stopPc, sinceOpp, nframes >>
    /\ UNCHANGED callVars

ResubscribeOk ==
    /\ pc = "resub"
    /\ ws = "open"
    /\ subOnWire' = subscribed_assets
    /\ sincePing' = 0
    /\ pc' = PingPc(0)
    /\ UNCHANGED << ws, running, subscribed_assets, subscribed_markets, dispatchVars,
                    on_book_update, reconnect_delay, stopPc, sinceOpp, nframes, fails >>
    /\ UNCHANGED callVars

ResubscribeFail ==
    /\ pc = "resub"
    /\ ws = "closed"
    /\ pc' = ExceptPc("closed", running)
    /\ fails' = CountFail(fails)
    /\ UNCHANGED << wsVars, running, dispatchVars, on_book_update, reconnect_delay,
                    sincePing, stopPc, sinceOpp, nframes >>
    /\ UNCHANGED callVars

\* await self.ws.send("PING"); a failure is swallowed (lines 206-210).
SendPing ==
    /\ pc = "pinging"
    /\ sincePing' = IF ws = "open" THEN 0 ELSE sincePing
    /\ pc' = "recv"
    /\ UNCHANGED << wsVars, running, dispatchVars, on_book_update, reconnect_delay,
                    stopPc, sinceOpp, nframes, fails >>
    /\ UNCHANGED callVars

\* asyncio.wait_for(self.ws.recv(), 1.0) times out: continue.
RecvTimeout ==
    /\ pc = "recv"
    /\ ws = "open"
    /\ sincePing' = AdvancePing(sincePing, PollTimeout)
    /\ sinceOpp' = AdvanceOpp(sinceOpp, PollTimeout)
    /\ pc' = TopPc(running, ws, sincePing')
    /\ UNCHANGED << wsVars, running, dispatchVars, on_book_update, reconnect_delay,
                    stopPc, nframes, fails >>
    /\ UNCHANGED callVars

\* recv() on a closed connection raises ConnectionClosed.
RecvClosed ==
    /\ pc = "recv"
    /\ ws = "closed"
    /\ pc' = ExceptPc("closed", running)
    /\ fails' = CountFail(fails)
    /\ UNCHANGED << wsVars, running, dispatchVars, on_book_update, reconnect_delay,
                    sincePing, stopPc, sinceOpp, nframes >>
    /\ UNCHANGED callVars

\* The state after a handler stopped in context d (finished or suspended),
\* the time being sp / already folded into d.since.
AfterDispatch(d, sp) ==
    /\ orderbooks' = d.ob
    /\ mutLog' = d.mut
    /\ cbLog' = d.cb
    /\ sinceOpp' = d.since
    /\ rest' = d.rest
    /\ opp' = d.opp
    /\ IF d.raised
       THEN /\ pc' = ExceptPc("error", running)
            /\ io' = "none"
            /\ curMarket' = ""
       ELSE IF d.susp
       THEN /\ pc' = "callback"
            /\ io' = "balance"
            /\ curMarket' = d.market
       ELSE /\ pc' = TopPc(running, ws, sp)
            /\ io' = "none"
            /\ curMarket' = ""

\* recv() returns a frame: reset the delay and handle the message.
RecvFrame(message) ==
    /\ pc = "recv"
    /\ ws = "open"
    /\ nframes < MaxFrames
    /\ nframes' = nframes + 1
    /\ reconnect_delay' = InitialReconnectDelay
    /\ fails' = 0
    /\ \E e \in Elapsed :
         /\ sincePing' = AdvancePing(sincePing, e)
         /\ AfterDispatch(
              handle_message(Ctx(orderbooks, AdvanceOpp(sinceOpp, e), mutLog, cbLog),
                             on_book_update, message),
              sincePing')
    /\ UNCHANGED << wsVars, running, on_book_update, stopPc >>
    /\ UNCHANGED callVars

\* The callback returns: the handler goes on with the remaining price changes.
CallbackReturns(sp, since) ==
    AfterDispatch(
        handle_price_changes(Ctx(orderbooks, since, mutLog, cbLog),
                             on_book_update, curMarket, rest),
        sp)

\* Variant: the minimum balance is not looked at.
MayExecute_IgnoresMinimum(balance, opportunity) ==
    balance >= opportunity.total_investment

\* The two balance tests of the callback (bot.py:205-224): sufficient is
\* balance >= required_amount (balance_checker.py:210), then the threshold.
MayExecute(balance, opportunity) ==
    /\ balance >= opportunity.total_investment
    /\ balance >= MinUsdcBalance

\* The callback's locals while it awaits execute_arbitrage.
Executing(balance) == [op |-> "execute_arbitrage", balance |-> balance]

\* check_sufficient_balance returns (bot.py:205-224).
BalanceDone(balance) ==
    /\ pc = "callback"
    /\ io = "balance"
    /\ \E e \in Elapsed :
         /\ sincePing' = AdvancePing(sincePing, e)
         /\ IF MayExecute(balance, opp)
            THEN /\ io' = "order"
                 /\ arg' = Executing(balance)
                 /\ sinceOpp' = AdvanceOpp(sinceOpp, e)
                 /\ UNCHANGED << orderbooks, opp, rest, curMarket, mutLog, cbLog, pc >>
            ELSE /\ CallbackReturns(sincePing', AdvanceOpp(sinceOpp, e))
                 /\ UNCHANGED arg
    /\ UNCHANGED << wsVars, running, on_book_update, reconnect_delay, stopPc,
                    nframes, fails >>
    /\ UNCHANGED << ret, config, detected, paperVars >>

\* execute_arbitrage (paper or real) returns or raises; either way the
\* callback logs and returns (bot.py:226-268).
OrderDone ==
    /\ pc = "callback"
    /\ io = "order"
    /\ arg' = NoCall
    /\ \E e \in Elapsed :
         /\ sincePing' = AdvancePing(sincePing, e)
         /\ CallbackReturns(sincePing', AdvanceOpp(sinceOpp, e))
    /\ UNCHANGED << wsVars, running, on_book_update, reconnect_delay, stopPc,
                    nframes, fails >>
    /\ UNCHANGED << ret, config, detected, paperVars >>

\* asyncio.sleep(reconnect_delay) of either handler ends.
SleepDone(kind) ==
    /\ pc = (IF kind = "closed" THEN "sleep_cc" ELSE "sleep_exc")
    /\ reconnect_delay' = DelayAfterSleep(kind, reconnect_delay)
    /\ sincePing' = AdvancePing(sincePing, reconnect_delay)
    /\ sinceOpp' = AdvanceOpp(sinceOpp, reconnect_delay)
    /\ pc' = TopPc(running, ws, sincePing')
    /\ UNCHANGED << wsVars, running, dispatchVars, on_book_update, stopPc,
                    nframes, fails >>
    /\ UNCHANGED callVars

\* -------------------------------------------------------------------- stop
\* self._running = False; then close the socket if it is still open.
StopBegin ==
    /\ stopPc = "idle"
    /\ running' = FALSE
    /\ stopPc' = IF ws = "open" THEN "closing" ELSE "done"
    /\ UNCHANGED << wsVars, dispatchVars, on_book_update, pc, reconnect_delay,
                    sincePing, sinceOpp, nframes, fails >>
    /\ UNCHANGED callVars

\* await self.ws.close() completes.
StopClose ==
    /\ stopPc = "closing"
    /\ ws' = "closed"
    /\ stopPc' = "done"
    /\ UNCHANGED << running, subscribed_assets, subscribed_markets, subOnWire,
                    dispatchVars, on_book_update, pc, reconnect_delay, sincePing,
                    sinceOpp, nframes, fails >>
    /\ UNCHANGED callVars

Balances == { 0, 75, 200 }

ListenNext ==
    \/ ConnectOk
    \/ ConnectFail
    \/ ResubscribeOk
    \/ ResubscribeFail
    \/ SendPing
    \/ RecvTimeout
    \/ RecvClosed
    \/ \E message \in FeedFrames : RecvFrame(message)
    \/ \E balance \in Balances : BalanceDone(balance)
    \/ OrderDone
    \/ SleepDone("closed")
    \/ SleepDone("error")

Next ==
    \/ ExtConnect
    \/ RegisterCallback
    \/ \E markets \in SubscribeRequests : Subscribe(markets)
    \/ StartListen
    \/ ListenNext
    \/ TransportClose
    \/ StopBegin
    \/ StopClose

Spec == Init /\ [][Next]_vars

\* The event loop runs every ready coroutine, every await of listen() ends
\* (a timeout bounds each), and so does the close() awaited by stop().
FairSpec == Spec /\ WF_vars(ListenNext) /\ WF_vars(StopClose)

\* ================================================================== claims
Range(seq) == { seq[i] : i \in 1..Len(seq) }

\* The store's entry for asset a is the same before and after the step.
SameEntry(a) ==
    /\ (a \in DOMAIN orderbooks') = (a \in DOMAIN orderbooks)
    /\ a \in DOMAIN orderbooks => orderbooks'[a] = orderbooks[a]

\* The callback invocations the step added.
NewCalls == SubSeq(cbLog', Len(cbLog) + 1, Len(cbLog'))

\* C1: if the transport closes while listen() runs with a non-empty recorded
\* subscription set, then (unless stop() intervenes) listen() eventually has
\* an open connection on which it has sent exactly the recorded asset ids.
TransportLost ==
    /\ ws = "closed"
    /\ running
    /\ pc \notin { "idle", "done" }
    /\ nframes >= 1
    /\ stopPc = "idle"
    /\ subscribed_assets # <<>>
Resubscribed ==
    /\ ws = "open"
    /\ subscribed_assets # <<>>
    /\ subOnWire = subscribed_assets
C1_ReconnectsAndResubscribes == TransportLost ~> (Resubscribed \/ stopPc # "idle")

\* C2: while a balance check or an order submission is pending, listen() is
\* not suspended inside the callback: it is at one of its own awaits (the
\* frame wait, a PING send, a connect, a resubscribe or a reconnect sleep).
ListenAtOwnAwait ==
    pc \in { "connecting", "resub", "pinging", "recv", "sleep_cc", "sleep_exc" }
C2_ReceiveLoopNeverBlocks == io # "none" => ListenAtOwnAwait

\* C3: with a callback registered, the callback invocations are exactly the
\* store mutations, in the same order and with the same (market, asset,
\* book), and when listen() reads the next frame no invocation is pending and
\* no entry of the previous frame is left undelivered.
C3_CallbackPerMutationInOrder ==
    on_book_update =>
        /\ cbLog = mutLog
        /\ pc = "recv" => (io = "none" /\ rest = <<>>)
C3_Witness ==
    /\ on_book_update
    /\ pc = "recv"
    /\ Len(cbLog) = 2
    /\ cbLog[1].asset_id = cbLog[2].asset_id
    /\ cbLog[1].book # cbLog[2].book

\* C4 (as claimed): a frame that fails to parse (invalid JSON, a book event
\* with a malformed level, a price_change frame with a malformed entry)
\* changes no entry of the store and triggers no callback.
WellFormedChange(c) ==
    c.best_bid # Missing /\ c.best_ask # Missing /\ ~ChangeRaises(c)
MalformedChange(c) ==
    c.best_bid # Missing /\ c.best_ask # Missing /\ ChangeRaises(c)
FailsToParse(f) ==
    \/ ~f.json
    \/ f.json /\ f.event_type = "book" /\ SnapshotRaises(f.bids, f.asks)
    \/ f.json /\ f.event_type = "price_change"
         /\ \E i \in 1..Len(f.price_changes) : MalformedChange(f.price_changes[i])
C4_FailedFrameDropped ==
    [][ \A f \in FeedFrames :
          (FailsToParse(f) /\ RecvFrame(f)) => (orderbooks' = orderbooks /\ cbLog' = cbLog)
      ]_vars

\* C4 (amended): invalid JSON and a book event with a malformed level change
\* no entry and trigger no callback; while a price_change frame is processed,
\* an asset for which the frame has no well-formed entry keeps its book and
\* gets no callback (the frame's well-formed entries are still applied).
Untouched(a) ==
    /\ SameEntry(a)
    /\ \A i \in 1..Len(NewCalls) : NewCalls[i].asset_id # a
AppliesOnlyWellFormed(changes) ==
    \A a \in Assets :
        (\A i \in 1..Len(changes) :
            changes[i].asset_id = a => ~WellFormedChange(changes[i]))
        => Untouched(a)
C4_MalformedNeverStored ==
    [][ /\ \A f \in FeedFrames :
             RecvFrame(f) =>
                 IF f.json /\ f.event_type = "price_change"
                 THEN AppliesOnlyWellFormed(f.price_changes)
                 ELSE FailsToParse(f) => (orderbooks' = orderbooks /\ cbLog' = cbLog)
        /\ pc = "callback" => AppliesOnlyWellFormed(rest)
      ]_vars
\* Second frame: a price_change whose a2 entry is malformed and whose a1
\* entry is sound; a2's book from the first frame is intact.
C4_Witness ==
    /\ nframes = 2
    /\ Len(mutLog) = 2
    /\ mutLog[1].asset_id = "a2"
    /\ mutLog[2].asset_id = "a1"
    /\ mutLog[2].book = [bids |-> <<[price |-> 46, size |-> 10000]>>,
                         asks |-> <<[price |-> 47, size |-> 10000]>>]
    /\ orderbooks["a2"] = mutLog[1].book

\* C5: no failure escapes listen(): it is never left by an exception, and
\* it returns only after stop() was invoked.
C5_NoFailureEscapesListen ==
    /\ pc # "escaped"
    /\ pc = "done" => (stopPc # "idle" /\ ~running)
\* Two failed connects in a row were absorbed and listen() is connecting again.
C5_Witness ==
    /\ running
    /\ fails >= 2
    /\ pc = "connecting"

\* C6: once stop() has been invoked and listen() has been called, listen()
\* eventually returns.
C6_StopEndsListen == (stopPc # "idle" /\ pc # "idle") ~> (pc = "done")

\* C7: once stop() has returned and listen() has returned, the client holds
\* no open socket.
C7_StopTearsDownSocket == (stopPc = "done" /\ pc = "done") => ws # "open"

\* C8: the wait that follows the k-th consecutive transport error handled by
\* listen() (k = 1, 2, ...) is min(5 * 2^(k-1), 60) seconds.
C8_BackoffDoublesOnEveryError ==
    pc \in { "sleep_cc", "sleep_exc" } =>
        reconnect_delay = Min(InitialReconnectDelay * 2 ^ (fails - 1), MaxReconnectDelay)

\* C9: a successful subscribe_to_markets(B) leaves in the recorded set the
\* asset ids recorded before it and those of B, when both fit under the cap.
C9_SubscribeMerges ==
    [][ \A ms \in SubscribeRequests :
          Subscribe(ms) =>
              LET want == Range(subscribed_assets) \cup Range(LimitedAssets(ms))
              IN  Cardinality(want) <= 2 * MaxWsSubscriptions
                      => want \subseteq Range(subscribed_assets')
      ]_vars

\* C10: after a well-formed book event for asset a, the store's entry for a
\* is exactly the frame's bid and ask levels in frame order, and the entry of
\* every other asset is unchanged.
FrameLevels(levels) ==
    [i \in 1..Len(levels) |-> [price |-> float(levels[i].price),
                              size |-> float(levels[i].size)]]
C10_BookEventReplacesEntry ==
    [][ \A f \in FeedFrames :
          (f.json /\ f.event_type = "book" /\ ~FailsToParse(f) /\ RecvFrame(f)) =>
              /\ f.asset_id \in DOMAIN orderbooks'
              /\ orderbooks'[f.asset_id].bids = FrameLevels(f.bids)
              /\ orderbooks'[f.asset_id].asks = FrameLevels(f.asks)
              /\ \A a \in Assets \ { f.asset_id } : SameEntry(a)
      ]_vars
\* a1 had a bid level and two ask levels cached; a second book event for a1
\* with no bids and one ask replaced them.
C10_Witness ==
    /\ Len(mutLog) = 2
    /\ mutLog[1].asset_id = "a1"
    /\ mutLog[1].book.bids # <<>>
    /\ Len(mutLog[1].book.asks) = 2
    /\ mutLog[2].asset_id = "a1"
    /\ orderbooks["a1"] = [bids |-> <<>>, asks |-> <<[price |-> 0, size |-> 10000]>>]

\* C11 (as claimed): after a price_change event every listed asset whose
\* entry has both best_bid and best_ask present holds a book of at most one
\* bid and one ask level taken from those fields (zero or empty: no level);
\* an asset with no such entry keeps its book.
\* The entries of the frame handled by this step (the handler stops early
\* only while the callback of its last handled entry is suspended).
Handled(changes) == SubSeq(changes, 1, Len(changes) - Len(rest'))
BothPresent(c) == c.best_bid # Missing /\ c.best_ask # Missing
Side(v, size) ==
    IF v = "" \/ float(v) = 0 THEN << >>
    ELSE << [price |-> float(v), size |-> float(size)] >>
TopOfBook(c) == [bids |-> Side(c.best_bid, c.size), asks |-> Side(c.best_ask, c.size)]
PresentIdx(changes, a) ==
    { i \in 1..Len(changes) : changes[i].asset_id = a /\ BothPresent(changes[i]) }
WellFormedIdx(changes, a) ==
    { i \in 1..Len(changes) : changes[i].asset_id = a /\ WellFormedChange(changes[i]) }
Last(idx) == CHOOSE i \in idx : \A j \in idx : j <= i
ReplacedWhenPresent(changes) ==
    \A a \in Assets :
        IF PresentIdx(changes, a) = {} THEN SameEntry(a)
        ELSE LET c == changes[Last(PresentIdx(changes, a))]
             IN  /\ a \in DOMAIN orderbooks'
                 /\ Len(orderbooks'[a].bids) <= 1
                 /\ Len(orderbooks'[a].asks) <= 1
                 /\ WellFormedChange(c) => orderbooks'[a] = TopOfBook(c)
C11_PriceChangeReplacesBook ==
    [][ /\ \A f \in FeedFrames :
             (f.json /\ f.event_type = "price_change" /\ RecvFrame(f))
                 => ReplacedWhenPresent(Handled(f.price_changes))
        /\ pc = "callback" => ReplacedWhenPresent(Handled(rest))
      ]_vars

\* C11 (amended): after a price_change event every listed asset that has an
\* entry whose best_bid and best_ask are both present and numeric holds
\* exactly the one-level book of its last such entry (a zero or empty side
\* has no level, no earlier depth survives); every other asset, one whose
\* entries lack a field or carry a non-numeric one included, keeps its book.
ReplacedWhenWellFormed(changes) ==
    \A a \in Assets :
        IF WellFormedIdx(changes, a) = {} THEN SameEntry(a)
        ELSE /\ a \in DOMAIN orderbooks'
             /\ orderbooks'[a] = TopOfBook(changes[Last(WellFormedIdx(changes, a))])
C11_WellFormedPriceChangeReplacesBook ==
    [][ /\ \A f \in FeedFrames :
             (f.json /\ f.event_type = "price_change" /\ RecvFrame(f))
                 => ReplacedWhenWellFormed(Handled(f.price_changes))
        /\ pc = "callback" => ReplacedWhenWellFormed(Handled(rest))
      ]_vars
\* a1 had two ask levels and a bid from a book event; a price_change with
\* best_bid 0 and best_ask 0.47 left it with no bid and the single ask.
C11_Witness ==
    /\ Len(mutLog) = 2
    /\ Len(mutLog[1].book.asks) = 2
    /\ mutLog[1].book.bids # << >>
    /\ mutLog[1].asset_id = "a1"
    /\ mutLog[2].asset_id = "a1"
    /\ pc # "callback"
    /\ orderbooks["a1"] = [bids |-> << >>, asks |-> <<[price |-> 47, size |-> 10000]>>]

\* ========================================= component: _handle_message alone
\* The frame handler applied to frame after frame, each call run to its end
\* (the callback's awaits having returned), with or without a callback.
HandlerInit ==
    /\ ws = "open"
    /\ running = TRUE
    /\ subscribed_assets = <<>>
    /\ subscribed_markets = <<>>
    /\ orderbooks = EmptyStore
    /\ on_book_update \in BOOLEAN
    /\ pc = "recv"
    /\ reconnect_delay = InitialReconnectDelay
    /\ sincePing = 0
    /\ stopPc = "idle"
    /\ io = "none"
    /\ opp = NoOpp
    /\ rest = <<>>
    /\ curMarket = ""
    /\ sinceOpp = [m \in { k.condition_id : k \in KnownMarkets } |-> OpportunityCooldown]
    /\ mutLog = <<>>
    /\ cbLog = <<>>
    /\ nframes = 0
    /\ fails = 0
    /\ subOnWire = <<>>
    /\ arg = NoCall
    /\ ret = NoCall
    /\ config = DefaultConfig
    /\ detected = NoneDetected
    /\ PaperIdle

HandleMessage(message) ==
    /\ nframes < MaxCalls
    /\ nframes' = nframes + 1
    /\ LET d == Finish(handle_message(Ctx(orderbooks, sinceOpp, mutLog, cbLog),
                                      on_book_update, message),
                       on_book_update)
       IN  /\ orderbooks' = d.ob
           /\ mutLog' = d.mut
           /\ cbLog' = d.cb
           /\ sinceOpp' = d.since
           /\ ret' = [op |-> "handle_message", raised |-> d.raised]
    /\ arg' = [op |-> "handle_message", message |-> message]
    /\ UNCHANGED << config, detected, paperVars >>
    /\ UNCHANGED << wsVars, running, on_book_update, pc, reconnect_delay, sincePing,
                    stopPc, io, opp, rest, curMarket, fails >>

HandlerNext == \E message \in FeedFrames : HandleMessage(message)

HandlerSpec == HandlerInit /\ [][HandlerNext]_vars

\* C12: a last_trade_price or tick_size_change event, or a frame whose
\* event_type is unknown or missing, leaves every entry of the store as it
\* was and invokes no update callback.
IgnoredFrame(f) == f.json /\ f.event_type \notin { "book", "price_change" }
C12_OtherEventsChangeNothing ==
    [][ \A f \in FeedFrames :
          (IgnoredFrame(f) /\ HandleMessage(f)) =>
              (orderbooks' = orderbooks /\ mutLog' = mutLog /\ cbLog' = cbLog)
      ]_vars
\* With a callback registered and a book cached (and delivered), the frame
\* handled last was a tick_size_change event carrying levels for that asset.
C12_Witness ==
    /\ on_book_update
    /\ arg.op = "handle_message"
    /\ arg.message.event_type = "tick_size_change"
    /\ arg.message.asset_id \in DOMAIN orderbooks
    /\ Len(cbLog) = 2

\* C13: listen() sends PING only when the keepalive interval has elapsed
\* since the last PING sent (or since loop start / resubscribe); it never
\* starts a frame wait on an open socket with a PING due; a frame wait adds
\* at most the poll timeout to the elapsed time; a PING sent on an open
\* socket restarts the interval.
C13_KeepaliveNeverStarved ==
    [][ /\ pc' = "pinging" => sincePing' >= PingInterval
        /\ (pc' = "recv" /\ ws' = "open") => sincePing' < PingInterval
        /\ pc = "recv" => sincePing' <= sincePing + PollTimeout
        /\ (pc = "pinging" /\ pc' = "recv" /\ ws = "open") => sincePing' = 0
      ]_vars
\* A silent feed: no frame ever arrived, the interval has elapsed over
\* successive poll timeouts, and the loop is sending PING on the open socket.
C13_Witness ==
    /\ running
    /\ ws = "open"
    /\ nframes = 0
    /\ fails = 0
    /\ pc = "pinging"
    /\ sincePing = PingInterval

\* ============================================= component: ArbitrageEngine
\* The engine over a store written by the feed handlers, called by an owner
\* (check_arbitrage_opportunity, validate_opportunity) as time passes.
\* The ask sides the feed may have left in a book (none, a zero price, ...).
AskSides ==
    { << >>, <<L("0")>>, <<L("0.47"), L("0.50")>>, <<L("0.49")>>, <<L("0.50")>> }
BookWithAsks(asks) == OrderbookSnapshot(<<L("0.45")>>, asks)
\* The stores the engine starts on: each token of m1 not cached or cached
\* with any ask side; m2 not cached, or cached at 0.47 / 0.49.
RECURSIVE StoreOf(_, _)
StoreOf(ids, f) ==
    IF ids = {} THEN EmptyStore
    ELSE LET a == CHOOSE x \in ids : TRUE
         IN  Put(StoreOf(ids \ {a}, f), a, BookWithAsks(f[a]))
StartStores ==
    { StoreOf(ids, f) : ids \in SUBSET { "a1", "a2" }, f \in [{ "a1", "a2" } -> AskSides] }
WithM2(ob) ==
    Put(Put(ob, "a3", BookWithAsks(<<L("0.47"), L("0.50")>>)), "a4", BookWithAsks(<<L("0.49")>>))

EngineInit ==
    /\ ws = "open"
    /\ running = TRUE
    /\ subscribed_assets = <<>>
    /\ subscribed_markets = <<>>
    /\ \E ob \in StartStores : orderbooks \in { ob, WithM2(ob) }
    /\ on_book_update = FALSE
    /\ pc = "recv"
    /\ reconnect_delay = InitialReconnectDelay
    /\ sincePing = 0
    /\ stopPc = "idle"
    /\ io = "none"
    /\ opp = NoOpp
    /\ rest = <<>>
    /\ curMarket = ""
    /\ sinceOpp = [m \in { k.condition_id : k \in KnownMarkets } |-> OpportunityCooldown]
    /\ mutLog = <<>>
    /\ cbLog = <<>>
    /\ nframes = 0
    /\ fails = 0
    /\ subOnWire = <<>>
    /\ arg = NoCall
    /\ ret = NoCall
    /\ config \in Configs
    /\ detected = NoneDetected
    /\ PaperIdle

engineFixed == << wsVars, running, on_book_update, pc, reconnect_delay, sincePing,
                  stopPc, io, rest, curMarket, mutLog, cbLog, nframes, fails, config,
                  paperVars >>

\* opportunity = engine.check_arbitrage_opportunity(market); the caller
\* keeps the opportunity it got last.
Check(market) ==
    /\ LET r == check_arbitrage_opportunity(config, orderbooks, sinceOpp, market)
       IN  /\ ret' = [op |-> "check", kind |-> r.kind, opp |-> r.opp, valid |-> FALSE]
           /\ sinceOpp' = RecordTrigger(sinceOpp, market, r.kind)
           /\ opp' = IF r.kind = "opp" THEN r.opp ELSE opp
           /\ detected' =
                IF r.kind = "opp"
                THEN [detected EXCEPT ![market.condition_id] =
                        [returned |-> TRUE, since |-> 0, changed |-> FALSE]]
                ELSE detected
    /\ arg' = [op |-> "check", market |-> market]
    /\ UNCHANGED << engineFixed, orderbooks >>

\* engine.validate_opportunity(opportunity) on the opportunity the caller holds.
Validate ==
    /\ opp # NoOpp
    /\ arg' = [op |-> "validate", market |-> opp.market]
    /\ ret' = [op |-> "validate", kind |-> "none", opp |-> opp,
               valid |-> validate_opportunity(config, orderbooks, opp,
                                              detected[opp.market.condition_id].since)]
    /\ UNCHANGED << engineFixed, orderbooks, sinceOpp, opp, detected >>

\* One second passes.
Tick ==
    /\ \E m \in DOMAIN sinceOpp : sinceOpp[m] < OpportunityCooldown
    /\ sinceOpp' = AdvanceOpp(sinceOpp, 1)
    /\ detected' = [m \in DOMAIN detected |->
                      [detected[m] EXCEPT !.since = Min(@ + 1, OpportunityCooldown)]]
    /\ UNCHANGED << engineFixed, orderbooks, opp, arg, ret >>

\* A feed handler replaces the book of a token of m1 by a different one.
UpdateBook(a, asks) ==
    /\ IF a \in DOMAIN orderbooks THEN orderbooks[a] # BookWithAsks(asks) ELSE TRUE
    /\ orderbooks' = Put(orderbooks, a, BookWithAsks(asks))
    /\ detected' = [detected EXCEPT !["m1"].changed = TRUE]
    /\ UNCHANGED << engineFixed, sinceOpp, opp, arg, ret >>

EngineNext ==
    \/ \E market \in KnownMarkets : Check(market)
    \/ Validate
    \/ Tick
    \/ \E a \in { "a1", "a2" }, asks \in AskSides : UpdateBook(a, asks)

EngineSpec == EngineInit /\ [][EngineNext]_vars

\* C14: check_arbitrage_opportunity(market) returns an opportunity exactly
\* when both tokens have a cached best ask, the asks sum to less than the
\* trigger threshold, (1 - sum) / sum is at least the minimum profit and the
\* cooldown has elapsed since the market's last returned opportunity; in
\* every other case it returns None, and it never raises.
HasAsk(a) == a \in DOMAIN orderbooks /\ orderbooks[a].asks # << >>
BestAsk(a) == orderbooks[a].asks[1].price
AskSum(market) == BestAsk(market.yes_token_id) + BestAsk(market.no_token_id)
CooldownElapsed(market) ==
    \/ ~detected[market.condition_id].returned
    \/ detected[market.condition_id].since >= config.opportunity_cooldown
Eligible(market) ==
    /\ HasAsk(market.yes_token_id)
    /\ HasAsk(market.no_token_id)
    /\ AskSum(market) < config.trigger_threshold
    /\ (100 - AskSum(market)) * 100 >= config.min_profit_threshold * AskSum(market)
    /\ CooldownElapsed(market)
C14_DetectsExactlyWhenEligible ==
    [][ \A market \in KnownMarkets :
          Check(market) =>
              /\ ret'.kind # "raise"
              /\ (ret'.kind = "opp") <=> Eligible(market)
              /\ ret'.kind = "opp" => ret'.opp.implied_sum = AskSum(market)
      ]_vars

\* C15: when a market's last returned opportunity is younger than the
\* cooldown and no book of the market changed since, a further
\* check_arbitrage_opportunity for that market returns None.
RecentAndUnchanged(market) ==
    /\ detected[market.condition_id].returned
    /\ detected[market.condition_id].since < config.opportunity_cooldown
    /\ ~detected[market.condition_id].changed
C15_SecondCallWithinCooldownIsNone ==
    [][ \A market \in KnownMarkets :
          (Check(market) /\ RecentAndUnchanged(market)) => ret'.kind = "none"
      ]_vars
\* m1 triggered, some but not all of the cooldown passed, no book changed,
\* and the call made last, for m1 again, returned None.
C15_Witness ==
    /\ arg.op = "check"
    /\ arg.market = M1
    /\ ret.kind = "none"
    /\ RecentAndUnchanged(M1)
    /\ detected["m1"].since > 0

\* C16: an opportunity is returned for a market that already had one only
\* when at least the cooldown has elapsed since that one; a call for one
\* market leaves the trigger time of every other market alone; and a market
\* with non-zero asks that meets the price conditions and is out of its own
\* cooldown gets its opportunity whatever the other markets' cooldowns.
C16_CooldownIsPerMarket ==
    [][ \A market \in KnownMarkets :
          Check(market) =>
              /\ (ret'.kind = "opp" /\ detected[market.condition_id].returned)
                    => detected[market.condition_id].since >= config.opportunity_cooldown
              /\ \A other \in DOMAIN sinceOpp \ { market.condition_id } :
                    sinceOpp'[other] = sinceOpp[other]
              /\ (/\ Eligible(market)
                  /\ BestAsk(market.yes_token_id) > 0
                  /\ BestAsk(market.no_token_id) > 0) => ret'.kind = "opp"
      ]_vars
\* An opportunity was just returned for m2 while m1 is inside its cooldown.
C16_Witness ==
    /\ arg.op = "check"
    /\ arg.market = M2
    /\ ret.kind = "opp"
    /\ detected["m1"].returned
    /\ detected["m1"].since < config.opportunity_cooldown

\* C17: validate_opportunity returns true only if the opportunity is at
\* most max_age old, both best asks are cached, their sum is below the
\* trigger threshold and (1 - sum) / sum is still at least the minimum profit.
C17_ValidateRechecksProfit ==
    [][ (Validate /\ ret'.valid) =>
            /\ detected[opp.market.condition_id].since <= MaxAgeSeconds
            /\ HasAsk(opp.market.yes_token_id)
            /\ HasAsk(opp.market.no_token_id)
            /\ AskSum(opp.market) < config.trigger_threshold
            /\ (100 - AskSum(opp.market)) * 100
                   >= config.min_profit_threshold * AskSum(opp.market)
      ]_vars

MIN_PRICE == 100
MAX_PRICE == 9900
MmTargetSpread == 200
MmSkewFactor == 1
MmMaxInventory == 1000
MinSpread == 100
MaxSpread == 1000
Cent == 100
One == 10000
WiderSpread == 400
BeyondMaxSpread == 2000

\* Two inputs that are no number: Python's None and float("nan").
None == 0 - 1
NaN == 0 - 2

\* InventorySkewStrategy(target_spread, skew_factor, max_inventory) as the
\* market maker builds it from its Config.
MmStrategy ==
    [target_spread |-> MmTargetSpread, skew_factor |-> MmSkewFactor,
     max_inventory |-> MmMaxInventory, min_spread |-> MinSpread,
     max_spread |-> MaxSpread]

\* Market prices handed to calculate_quotes: whole cents, with 0 and 1.00
\* as the unacceptable prices.
QuotePrices == { 0, 100, 300, 4800, 5000, 9700, 9900, One }
\* The (best_bid, best_ask) pairs handed to it: those whose mid price is a
\* whole cent, so that no quote falls half way between two cents, and those
\* with a missing or not-a-number price.
QuoteMarkets ==
    { m \in QuotePrices \X QuotePrices : (m[1] + m[2]) % (2 * Cent) = 0 }
        \cup ({ None, NaN } \X { 5000 }) \cup ({ 4800 } \X { None, NaN })
        \cup { << None, None >>, << NaN, NaN >> }
\* Inventories handed to it: at, inside and beyond the limit.
Inventories ==
    { -1000, -500, -180, 0, 180, 500, 1000 }

\* Float arithmetic and comparison: nan propagates and compares false.
IsNaN(x) == x = NaN
Add(x, y) == IF IsNaN(x) \/ IsNaN(y) THEN NaN ELSE x + y
Sub(x, y) == IF IsNaN(x) \/ IsNaN(y) THEN NaN ELSE x - y
Half(x) == IF IsNaN(x) THEN NaN ELSE x \div 2
Lt(x, y) == ~IsNaN(x) /\ ~IsNaN(y) /\ x < y
Le(x, y) == ~IsNaN(x) /\ ~IsNaN(y) /\ x <= y
\* Python's max(a, b) and min(a, b): the first argument unless the second
\* compares beyond it.
max(a, b) == IF Lt(a, b) THEN b ELSE a
min(a, b) == IF Lt(b, a) THEN b ELSE a
Abs(x) == IF x < 0 THEN 0 - x ELSE x

\* round(price, 2).  A price written half way between two cents goes
\* where its double lies: of the halves that arise, 0.025 and 0.505 are
\* stored just above the half, and 0.015, 0.475, 0.485, 0.495, 0.975 and
\* 0.985 just below it.
HalvesRoundedUp == { 250, 5050 }
Round2(price) ==
    IF IsNaN(price) THEN NaN
    ELSE IF price % Cent > Cent \div 2 \/ price \in HalvesRoundedUp
    THEN (price \div Cent) * Cent + Cent
    ELSE (price \div Cent) * Cent

clamp_price(price) == max(MIN_PRICE, min(MAX_PRICE, price))

create_invalid_quote_response(reason) ==
    [bid_price |-> 0, ask_price |-> 0, fair_value |-> 0,
     should_stop_buying |-> TRUE, should_stop_selling |-> TRUE, reason |-> reason]

\* _validate_inputs: "" stands for its None (the inputs are accepted).
validate_inputs(best_bid, best_ask) ==
    IF best_bid = None \/ best_ask = None THEN "Invalid market data"
    ELSE IF Le(best_bid, 0) \/ Le(One, best_bid) THEN "Invalid best_bid"
    ELSE IF Le(best_ask, 0) \/ Le(One, best_ask) THEN "Invalid best_ask"
    ELSE IF Le(best_ask, best_bid) THEN "Invalid market"
    ELSE ""

\* Variant: the inventory skew is added to the mid price.
InventoryAdjustment_Negated(strategy, current_inventory) ==
    0 - current_inventory * strategy.skew_factor

\* Step 2 of calculate_quotes.
InventoryAdjustment(strategy, current_inventory) ==
    current_inventory * strategy.skew_factor

\* Variant: buying stops only beyond the limit.
StopBuying_BeyondLimit(strategy, current_inventory) ==
    Abs(current_inventory) > strategy.max_inventory /\ current_inventory > 0

\* Inventory limit flags of calculate_quotes.
StopBuying(strategy, current_inventory) ==
    Abs(current_inventory) >= strategy.max_inventory /\ current_inventory > 0
StopSelling(strategy, current_inventory) ==
    Abs(current_inventory) >= strategy.max_inventory /\ current_inventory < 0

\* Variant: the spread of the quote before widens the next one.
HalfSpread_Widening(strategy) ==
    IF arg.op = "calculate_quotes" /\ ret.reason = ""
    THEN strategy.target_spread \div 2 + (ret.ask_price - ret.bid_price)
    ELSE strategy.target_spread \div 2

\* half_spread = self.target_spread / 2.0
HalfSpread(strategy) == strategy.target_spread \div 2

\* Variant: the ask is put back at the midpoint, without half the minimum spread.
RecenteredAsk_AtMid(strategy, mid) == min(MAX_PRICE, mid)

\* Lines 184-189: bid and ask recentred around the midpoint of the clamped
\* prices, half the minimum spread to each side, within the price bounds.
RecenteredBid(strategy, mid) == max(MIN_PRICE, mid - strategy.min_spread \div 2)
RecenteredAsk(strategy, mid) == min(MAX_PRICE, mid + strategy.min_spread \div 2)

calculate_quotes(strategy, best_bid, best_ask, current_inventory) ==
    IF validate_inputs(best_bid, best_ask) # ""
    THEN create_invalid_quote_response(validate_inputs(best_bid, best_ask))
    ELSE
      LET mid_price == Half(Add(best_bid, best_ask))
          inventory_adjustment == InventoryAdjustment(strategy, current_inventory)
          fair_value == Sub(mid_price, inventory_adjustment)
          half_spread == HalfSpread(strategy)
          bid0 == clamp_price(Sub(fair_value, half_spread))
          ask0 == clamp_price(Add(fair_value, half_spread))
          mid == (bid0 + ask0) \div 2
          bid1 == IF bid0 >= ask0 THEN RecenteredBid(strategy, mid) ELSE bid0
          ask1 == IF bid0 >= ask0 THEN RecenteredAsk(strategy, mid) ELSE ask0
      IN  IF bid1 >= ask1
          THEN create_invalid_quote_response("Bid >= Ask after constraint adjustments")
          ELSE [bid_price |-> Round2(bid1), ask_price |-> Round2(ask1),
                fair_value |-> fair_value,
                should_stop_buying |-> StopBuying(strategy, current_inventory),
                should_stop_selling |-> StopSelling(strategy, current_inventory),
                reason |-> ""]

\* update_parameters: each given parameter is checked and assigned in turn;
\* a ValueError leaves the assignments made before it in place.
update_parameters(strategy, target_spread, skew_factor, max_inventory) ==
    LET s1 == IF target_spread = None THEN strategy
              ELSE [strategy EXCEPT !.target_spread = target_spread]
        r1 == target_spread # None /\ (target_spread <= 0 \/ target_spread >= One)
        s2 == IF skew_factor = None THEN s1 ELSE [s1 EXCEPT !.skew_factor = skew_factor]
        r2 == skew_factor # None /\ skew_factor <= 0
        s3 == IF max_inventory = None THEN s2 ELSE [s2 EXCEPT !.max_inventory = max_inventory]
        r3 == max_inventory # None /\ max_inventory <= 0
    IN  IF r1 THEN strategy ELSE IF r2 THEN s1 ELSE IF r3 THEN s2 ELSE s3

QuoteInit ==
    /\ ws = "none"
    /\ running = FALSE
    /\ subscribed_assets = <<>>
    /\ subscribed_markets = <<>>
    /\ orderbooks = EmptyStore
    /\ on_book_update = FALSE
    /\ pc = "idle"
    /\ reconnect_delay = InitialReconnectDelay
    /\ sincePing = 0
    /\ stopPc = "idle"
    /\ io = "none"
    /\ opp = NoOpp
    /\ rest = <<>>
    /\ curMarket = ""
    /\ sinceOpp = [m \in { k.condition_id : k \in KnownMarkets } |-> OpportunityCooldown]
    /\ mutLog = <<>>
    /\ cbLog = <<>>
    /\ nframes = 0
    /\ fails = 0
    /\ subOnWire = <<>>
    /\ arg = NoCall
    /\ ret = NoCall
    /\ config = MmStrategy
    /\ detected = NoneDetected
    /\ PaperIdle

quoteFixed == << wsVars, dispatchVars, running, on_book_update, pc, reconnect_delay,
                 sincePing, stopPc, sinceOpp, nframes, fails, detected,
                 trade_logger, csv_file, executor, entry, maker, components,
                 limiter, backoff >>

\* quotes = strategy.calculate_quotes(best_bid, best_ask, current_inventory)
CalculateQuotes(best_bid, best_ask, current_inventory) ==
    /\ arg' = [op |-> "calculate_quotes", strategy |-> config,
               best_bid |-> best_bid, best_ask |-> best_ask,
               current_inventory |-> current_inventory]
    /\ ret' = calculate_quotes(config, best_bid, best_ask, current_inventory)
    /\ repeated' = [again |-> arg' = arg, same |-> arg' = arg /\ ret' = ret]
    /\ UNCHANGED << quoteFixed, config >>

\* strategy.update_parameters(target_spread, skew_factor, max_inventory)
UpdateParameters(target_spread, skew_factor, max_inventory) ==
    /\ config' = update_parameters(config, target_spread, skew_factor, max_inventory)
    /\ UNCHANGED << quoteFixed, arg, ret, repeated >>

QuoteNext ==
    \/ \E m \in QuoteMarkets, current_inventory \in Inventories :
         CalculateQuotes(m[1], m[2], current_inventory)
    \/ \E target_spread \in { None, 0, MmTargetSpread, WiderSpread, BeyondMaxSpread },
          skew_factor \in { None, MmSkewFactor },
          max_inventory \in { None, 0, MmMaxInventory } :
         UpdateParameters(target_spread, skew_factor, max_inventory)

QuoteSpec == QuoteInit /\ [][QuoteNext]_vars

\* C19: for best_bid < best_ask both in (0, 1) and any inventory, a quote
\* returned without a reason has 0.01 <= bid_price < ask_price <= 0.99.
SoundMarket ==
    /\ arg.op = "calculate_quotes"
    /\ 0 < arg.best_bid
    /\ arg.best_bid < arg.best_ask
    /\ arg.best_ask < One
C19_ValidQuoteIsOrdered ==
    (SoundMarket /\ ret.reason = "") =>
        /\ MIN_PRICE <= ret.bid_price
        /\ ret.bid_price < ret.ask_price
        /\ ret.ask_price <= MAX_PRICE

\* C20: on a quote returned without a reason, should_stop_buying is true
\* exactly when inventory >= max_inventory, should_stop_selling exactly when
\* inventory <= -max_inventory, and the two are never both true.
C20_StopFlagsAtTheLimit ==
    (SoundMarket /\ ret.reason = "") =>
        /\ ret.should_stop_buying <=> (arg.current_inventory >= arg.strategy.max_inventory)
        /\ ret.should_stop_selling <=>
               (arg.current_inventory <= 0 - arg.strategy.max_inventory)
        /\ ~(ret.should_stop_buying /\ ret.should_stop_selling)
\* A quote for market 0.48 / 0.50 at inventory exactly -max_inventory:
\* selling is stopped, buying is not, and the bid is still quoted.
C20_Witness ==
    /\ SoundMarket
    /\ ret.reason = ""
    /\ arg.best_bid = 4800
    /\ arg.best_ask = 5000
    /\ arg.current_inventory = 0 - arg.strategy.max_inventory
    /\ ret.should_stop_selling
    /\ ~ret.should_stop_buying
    /\ ret.bid_price < ret.ask_price

\* C21: when best_bid or best_ask is missing, is not strictly inside (0, 1),
\* or best_bid >= best_ask, calculate_quotes returns an invalid quote: a
\* non-empty reason, bid_price = ask_price = 0, both stop flags true.
InsideUnit(x) == x # None /\ x # NaN /\ 0 < x /\ x < One
BadMarketData ==
    /\ arg.op = "calculate_quotes"
    /\ \/ ~InsideUnit(arg.best_bid)
       \/ ~InsideUnit(arg.best_ask)
       \/ arg.best_bid >= arg.best_ask
C21_BadMarketDataIsRejected ==
    BadMarketData =>
        /\ ret.reason # ""
        /\ ret.bid_price = 0
        /\ ret.ask_price = 0
        /\ ret.should_stop_buying
        /\ ret.should_stop_selling

\* C22: when no clamping occurs, fair_value = (best_bid + best_ask)/2 -
\* inventory * skew_factor and bid / ask = fair_value -/+ target_spread/2
\* rounded to 2 decimals; (0.48, 0.50, inventory 0) gives 0.49, 0.48, 0.50
\* and (0.48, 0.50, inventory 500) gives 0.44, 0.43, 0.45 with target_spread
\* 0.02 and skew_factor 0.0001.
Unclamped ==
    /\ SoundMarket
    /\ LET fair == (arg.best_bid + arg.best_ask) \div 2
                       - arg.current_inventory * arg.strategy.skew_factor
       IN  /\ MIN_PRICE <= fair - arg.strategy.target_spread \div 2
           /\ fair + arg.strategy.target_spread \div 2 <= MAX_PRICE
ScenarioMarket(inventory) ==
    /\ arg.op = "calculate_quotes"
    /\ arg.strategy.target_spread = 200
    /\ arg.strategy.skew_factor = 1
    /\ arg.best_bid = 4800
    /\ arg.best_ask = 5000
    /\ arg.current_inventory = inventory
C22_UnclampedQuoteFormula ==
    /\ Unclamped =>
         LET fair == (arg.best_bid + arg.best_ask) \div 2
                         - arg.current_inventory * arg.strategy.skew_factor
         IN  /\ ret.reason = ""
             /\ ret.fair_value = fair
             /\ ret.bid_price = Round2(fair - arg.strategy.target_spread \div 2)
             /\ ret.ask_price = Round2(fair + arg.strategy.target_spread \div 2)
    /\ ScenarioMarket(0) =>
         ret.fair_value = 4900 /\ ret.bid_price = 4800 /\ ret.ask_price = 5000
    /\ ScenarioMarket(500) =>
         ret.fair_value = 4400 /\ ret.bid_price = 4300 /\ ret.ask_price = 4500
\* Scenario B was quoted: market 0.48 / 0.50 at inventory 500, no clamping.
C22_Witness ==
    /\ ScenarioMarket(500)
    /\ Unclamped
    /\ ret.reason = ""
    /\ ret.bid_price = 4300

MaxTrades == 3

FillSize == 10
LedgerPrices == { 4000, 5000 }
LedgerMarkets == { "m1", "m2" }

\* dict.get(key, default) and dict.pop(key, None)
Get(dict, key, default) == IF key \in DOMAIN dict THEN dict[key] ELSE default
Pop(dict, key) == [k \in (DOMAIN dict) \ {key} |-> dict[k]]

\* f"{value:.2f}" of a dollar amount given in ten-thousandths: the nearest
\* cent (no amount of the runs below lies half way between two cents).
FormatCents(q) ==
    ((2 * q.num + q.den * Cent) \div (2 * q.den * Cent)) * Cent

\* pnl of simulate_fill: 0.0 for a BUY, (price - avg_buy_price) * size for
\* a SELL, the average defaulting to the fill price.
FillPnl(logger, action, condition_id, price, size) ==
    IF action = "BUY" THEN Quot(0, 1)
    ELSE LET avg_buy_price == Get(logger.avg_buy_prices, condition_id, Quot(price, 1))
         IN  Quot((price * avg_buy_price.den - avg_buy_price.num) * size,
                  avg_buy_price.den)

\* (old_avg * old_inventory + price * size) / new_inventory
WeightedAverage(old_avg, old_inventory, price, size) ==
    Quot(old_avg.num * old_inventory + price * size * old_avg.den,
         old_avg.den * (old_inventory + size))

\* self.avg_buy_prices after simulate_fill.
FillAverages(logger, action, condition_id, price, size) ==
    LET current_inventory == Get(logger.inventories, condition_id, 0)
    IN  IF action = "BUY"
        THEN IF current_inventory > 0
             THEN Put(logger.avg_buy_prices, condition_id,
                      WeightedAverage(Get(logger.avg_buy_prices, condition_id, Quot(price, 1)),
                                      current_inventory, price, size))
             ELSE Put(logger.avg_buy_prices, condition_id, Quot(price, 1))
        ELSE IF current_inventory - size <= 0
             THEN Pop(logger.avg_buy_prices, condition_id)
             ELSE logger.avg_buy_prices

\* simulate_fill: the logger after the fill and the Trade it returns.
simulate_fill(logger, action, condition_id, price, size) ==
    LET current_inventory == Get(logger.inventories, condition_id, 0)
        pnl == FillPnl(logger, action, condition_id, price, size)
        new_inventory == IF action = "BUY" THEN current_inventory + size
                         ELSE current_inventory - size
        cumulative_pnl == Quot(logger.cumulative_pnl.num * pnl.den
                                   + pnl.num * logger.cumulative_pnl.den,
                               logger.cumulative_pnl.den * pnl.den)
    IN  [logger |->
            [inventories |-> Put(logger.inventories, condition_id, new_inventory),
             avg_buy_prices |-> FillAverages(logger, action, condition_id, price, size),
             cumulative_pnl |-> cumulative_pnl,
             total_trades |-> logger.total_trades + 1],
         trade |->
            [action |-> action, condition_id |-> condition_id, price |-> price,
             size |-> size, inventory_after |-> new_inventory, pnl |-> pnl,
             cumulative_pnl |-> cumulative_pnl]]

\* _save_trade: the row appended to the file; the price is written with
\* four decimals (a ten-thousandth is exact), the amounts with two.
save_trade(trade) ==
    [action |-> trade.action, condition_id |-> trade.condition_id,
     price |-> trade.price, size |-> trade.size,
     inventory_after |-> trade.inventory_after,
     pnl |-> FormatCents(trade.pnl),
     cumulative_pnl |-> FormatCents(trade.cumulative_pnl)]

\* The loop of _load_existing_trades over the rows of the file.
RECURSIVE RebuildState(_, _)
RebuildState(logger, rows) ==
    IF rows = <<>> THEN logger
    ELSE
      LET row == Head(rows)
          old_inventory == row.inventory_after - row.size
          old_avg == Get(logger.avg_buy_prices, row.condition_id, Quot(row.price, 1))
          averages ==
            IF row.action = "BUY" /\ row.inventory_after > 0
            THEN IF old_inventory > 0
                 THEN Put(logger.avg_buy_prices, row.condition_id,
                          WeightedAverage(old_avg, old_inventory, row.price, row.size))
                 ELSE Put(logger.avg_buy_prices, row.condition_id, Quot(row.price, 1))
            ELSE logger.avg_buy_prices
      IN  RebuildState([logger EXCEPT
                            !.inventories = Put(@, row.condition_id, row.inventory_after),
                            !.avg_buy_prices = averages],
                       Tail(rows))

\* _load_existing_trades: nothing for a file without rows; else the
\* cumulative PnL of the last row, the number of rows, and the rebuilt state.
load_existing_trades(logger, rows) ==
    IF rows = <<>> THEN logger
    ELSE RebuildState([logger EXCEPT
                           !.cumulative_pnl = Quot(rows[Len(rows)].cumulative_pnl, 1),
                           !.total_trades = Len(rows)],
                      rows)

\* The average entry price of a position after a fill: the size-weighted
\* average of the fills that opened or increased it, none (absent) once the
\* position is closed.
EntryAfter(entries, current_inventory, action, condition_id, price, size) ==
    LET delta == IF action = "BUY" THEN size ELSE 0 - size
        new_inventory == current_inventory + delta
    IN  IF current_inventory = 0 \/ (current_inventory > 0) = (delta > 0)
        THEN Put(entries, condition_id,
                 WeightedAverage(Get(entries, condition_id, Quot(price, 1)),
                                 Abs(current_inventory), price, size))
        ELSE IF new_inventory = 0 THEN Pop(entries, condition_id)
        ELSE IF (new_inventory > 0) = (current_inventory > 0) THEN entries
        ELSE Put(entries, condition_id, Quot(price, 1))

LedgerInit ==
    /\ ws = "none"
    /\ running = FALSE
    /\ subscribed_assets = <<>>
    /\ subscribed_markets = <<>>
    /\ orderbooks = EmptyStore
    /\ on_book_update = FALSE
    /\ pc = "idle"
    /\ reconnect_delay = InitialReconnectDelay
    /\ sincePing = 0
    /\ stopPc = "idle"
    /\ io = "none"
    /\ opp = NoOpp
    /\ rest = <<>>
    /\ curMarket = ""
    /\ sinceOpp = [m \in { k.condition_id : k \in KnownMarkets } |-> OpportunityCooldown]
    /\ mutLog = <<>>
    /\ cbLog = <<>>
    /\ nframes = 0
    /\ fails = 0
    /\ subOnWire = <<>>
    /\ arg = NoCall
    /\ ret = NoCall
    /\ config = MmStrategy
    /\ detected = NoneDetected
    /\ PaperIdle

ledgerFixed == << wsVars, dispatchVars, running, on_book_update, pc, reconnect_delay,
                  sincePing, stopPc, sinceOpp, nframes, fails, config, detected,
                  repeated, executor, maker, components, limiter, backoff >>

\* trade_logger.simulate_fill(action, question, condition_id, price, size)
SimulateFill(action, condition_id, price, size) ==
    /\ Len(csv_file) < MaxTrades
    /\ LET r == simulate_fill(trade_logger, action, condition_id, price, size)
       IN  /\ trade_logger' = r.logger
           /\ csv_file' = Append(csv_file, save_trade(r.trade))
           /\ ret' = [op |-> "simulate_fill", trade |-> r.trade]
    /\ arg' = [op |-> "simulate_fill", action |-> action, condition_id |-> condition_id,
               price |-> price, size |-> size,
               inventory_before |-> Get(trade_logger.inventories, condition_id, 0),
               entry_before |-> Get(entry, condition_id, Quot(price, 1))]
    /\ entry' = EntryAfter(entry, Get(trade_logger.inventories, condition_id, 0),
                           action, condition_id, price, size)
    /\ UNCHANGED ledgerFixed

\* The process ends and a new one builds SimulatedTradeLogger(csv_file):
\* _initialize_csv finds the file and loads it.
Restart ==
    /\ trade_logger' = load_existing_trades(NewTradeLogger, csv_file)
    /\ arg' = [op |-> "restart"]
    /\ ret' = [op |-> "restart"]
    /\ UNCHANGED << ledgerFixed, csv_file, entry >>

LedgerNext ==
    \/ \E action \in { "BUY", "SELL" }, condition_id \in LedgerMarkets,
          price \in LedgerPrices :
         SimulateFill(action, condition_id, price, FillSize)
    \/ Restart

LedgerSpec == LedgerInit /\ [][LedgerNext]_vars

\* C26: a fill that reduces the absolute inventory records pnl =
\* (fill_price - avg_entry) * size against the position's average entry
\* price; a fill that opens or increases a position, long or short, records
\* pnl = 0 and leaves the size-weighted average as the average entry price.
Reduces ==
    /\ arg.inventory_before # 0
    /\ (arg.inventory_before > 0) = (arg.action = "SELL")
C26_PnlOnlyOnClosingFills ==
    arg.op = "simulate_fill" =>
        IF Reduces
        THEN ret.trade.pnl =
                Quot((arg.price * arg.entry_before.den - arg.entry_before.num) * arg.size,
                     arg.entry_before.den)
        ELSE /\ ret.trade.pnl = Quot(0, 1)
             /\ arg.condition_id \in DOMAIN trade_logger.avg_buy_prices
             /\ trade_logger.avg_buy_prices[arg.condition_id] = entry[arg.condition_id]

\* C28: at every moment a SimulatedTradeLogger constructed over the ledger
\* written so far would hold, for every market, the inventory and the
\* average entry price that the running instance holds.
C28_ReplayRestoresState ==
    LET replayed == load_existing_trades(NewTradeLogger, csv_file)
    IN  /\ replayed.inventories = trade_logger.inventories
        /\ replayed.avg_buy_prices = trade_logger.avg_buy_prices

\* ============================================== component: MarketMakerBot
\* The books handed to the bot carry prices in hundredths, as the store
\* holds them; the strategy and the ledger count in ten-thousandths.
QuoteUpdateInterval == 5
\* MM_MAX_INVENTORY=5 in the environment.
TightInventory == 5
MakerStrategies == { MmStrategy, [MmStrategy EXCEPT !.max_inventory = TightInventory] }

\* fetch_markets: the tracked markets, each with inventory 0 and no quote
\* update yet (last_quote_update 0.0, long ago).
TrackedMarkets == { "m1" }
FetchedMaker ==
    [sinceQuote |-> [m \in TrackedMarkets |-> QuoteUpdateInterval],
     inventories |-> [m \in TrackedMarkets |-> 0]]

Level(price) == [price |-> price, size |-> 100]
Book(bids, asks) == [bids |-> bids, asks |-> asks]
\* Snapshots a book update delivers: low, middle and high markets, a market
\* at 1.00, a crossed book, a zero bid and books with an empty side.
MakerBooks ==
    { Book(<< Level(1) >>, << Level(2) >>),
      Book(<< Level(48), Level(47) >>, << Level(50), Level(52) >>),
      Book(<< Level(98) >>, << Level(99) >>),
      Book(<< Level(99) >>, << Level(100) >>),
      Book(<< Level(50) >>, << Level(48) >>),
      Book(<< Level(0) >>, << Level(50) >>),
      Book(<< >>, << Level(50) >>),
      Book(<< Level(48) >>, << >>) }

\* OrderbookSnapshot.get_best_bid / get_best_ask: the first level, if any.
NoLevel == [price |-> None, size |-> 0]
get_best_bid(orderbook) == IF orderbook.bids = << >> THEN NoLevel ELSE orderbook.bids[1]
get_best_ask(orderbook) == IF orderbook.asks = << >> THEN NoLevel ELSE orderbook.asks[1]

\* A price of the book in the strategy's unit.
InTenThousandths(price) == price * Cent

\* Variant: a bid equal to the market's best bid is not filled.
BuyIsHit_Strict(best_bid, best_ask, our_bid, should_stop_buying) ==
    ~should_stop_buying /\ our_bid > best_bid /\ our_bid < best_ask

\* The two conditions under which simulate_fills fills a side.
BuyIsHit(best_bid, best_ask, our_bid, should_stop_buying) ==
    ~should_stop_buying /\ our_bid >= best_bid /\ our_bid < best_ask
SellIsHit(best_bid, best_ask, our_ask, should_stop_selling) ==
    ~should_stop_selling /\ our_ask <= best_ask /\ our_ask > best_bid

\* simulate_fills: the BUY side, then the SELL side on the ledger the BUY
\* left; the logger after both and the trades made, in order.
simulate_fills(logger, market_id, best_bid, best_ask, our_bid, our_ask, should_stop_buying, should_stop_selling) ==
    LET fill_size == FillSize
        buy == simulate_fill(logger, "BUY", market_id, our_bid, fill_size)
        bought == BuyIsHit(best_bid, best_ask, our_bid, should_stop_buying)
        logger1 == IF bought THEN buy.logger ELSE logger
        sell == simulate_fill(logger1, "SELL", market_id, our_ask, fill_size)
        sold == SellIsHit(best_bid, best_ask, our_ask, should_stop_selling)
    IN  [logger |-> IF sold THEN sell.logger ELSE logger1,
         trades |-> (IF bought THEN << buy.trade >> ELSE << >>)
                        \o (IF sold THEN << sell.trade >> ELSE << >>)]

NoQuotes == [reason |-> "none"]

\* MarketMakerBot.on_orderbook_update: how far the update got, the quotes
\* it computed, the trades it simulated, and the bot and the logger after it.
mm_on_orderbook_update(bot, strategy, logger, market_id, orderbook) ==
    LET unchanged(outcome) ==
            [outcome |-> outcome, quotes |-> NoQuotes, trades |-> << >>,
             bot |-> bot, logger |-> logger]
        best_bid == InTenThousandths(get_best_bid(orderbook).price)
        best_ask == InTenThousandths(get_best_ask(orderbook).price)
        current_inventory == Get(logger.inventories, market_id, 0)
        bot1 == [bot EXCEPT !.inventories = Put(@, market_id, current_inventory)]
        quotes == calculate_quotes(strategy, best_bid, best_ask, current_inventory)
        fills == simulate_fills(logger, market_id, best_bid, best_ask,
                                quotes.bid_price, quotes.ask_price,
                                quotes.should_stop_buying, quotes.should_stop_selling)
    IN  IF market_id \notin DOMAIN bot.sinceQuote THEN unchanged("not tracked")
        ELSE IF bot.sinceQuote[market_id] < QuoteUpdateInterval THEN unchanged("too soon")
        ELSE IF orderbook.bids = << >> \/ orderbook.asks = << >> THEN unchanged("empty")
        ELSE IF best_bid <= 0 \/ best_ask <= 0 \/ best_bid >= best_ask
        THEN unchanged("invalid")
        ELSE IF quotes.reason # ""
        THEN [outcome |-> "no quote", quotes |-> quotes, trades |-> << >>,
              bot |-> bot1, logger |-> logger]
        ELSE [outcome |-> "quoted", quotes |-> quotes, trades |-> fills.trades,
              bot |-> [bot1 EXCEPT !.sinceQuote[market_id] = 0],
              logger |-> fills.logger]

RECURSIVE SaveTrades(_, _)
SaveTrades(rows, trades) ==
    IF trades = << >> THEN rows
    ELSE SaveTrades(Append(rows, save_trade(Head(trades))), Tail(trades))

MakerInit ==
    /\ ws = "none"
    /\ running = FALSE
    /\ subscribed_assets = <<>>
    /\ subscribed_markets = <<>>
    /\ orderbooks = EmptyStore
    /\ on_book_update = FALSE
    /\ pc = "idle"
    /\ reconnect_delay = InitialReconnectDelay
    /\ sincePing = 0
    /\ stopPc = "idle"
    /\ io = "none"
    /\ opp = NoOpp
    /\ rest = <<>>
    /\ curMarket = ""
    /\ sinceOpp = [m \in { k.condition_id : k \in KnownMarkets } |-> OpportunityCooldown]
    /\ mutLog = <<>>
    /\ cbLog = <<>>
    /\ nframes = 0
    /\ fails = 0
    /\ subOnWire = <<>>
    /\ arg = NoCall
    /\ ret = NoCall
    /\ config \in MakerStrategies
    /\ detected = NoneDetected
    /\ repeated = NoRepeat
    /\ trade_logger = NewTradeLogger
    /\ csv_file = <<>>
    /\ executor = NewExecutor
    /\ entry = << >>
    /\ maker = FetchedMaker
    /\ components = NoComponents
    /\ limiter = NewLimiter
    /\ backoff = NoBackoff

makerFixed == << wsVars, dispatchVars, running, on_book_update, pc, reconnect_delay,
                 sincePing, stopPc, sinceOpp, nframes, fails, config, detected,
                 repeated, executor, entry, components, limiter, backoff >>

\* on_orderbook_update(market_id, asset_id, orderbook), as the feed client
\* calls it after a book update.
OnOrderbookUpdate(market_id, asset_id, orderbook) ==
    /\ Len(csv_file) < MaxTrades
    /\ LET r == mm_on_orderbook_update(maker, config, trade_logger, market_id, orderbook)
       IN  /\ maker' = r.bot
           /\ trade_logger' = r.logger
           /\ csv_file' = SaveTrades(csv_file, r.trades)
           /\ ret' = [op |-> "on_orderbook_update", outcome |-> r.outcome,
                      quotes |-> r.quotes, trades |-> r.trades]
    /\ arg' = [op |-> "on_orderbook_update", market_id |-> market_id,
               asset_id |-> asset_id, orderbook |-> orderbook,
               inventory_before |-> Get(trade_logger.inventories, market_id, 0)]
    /\ UNCHANGED makerFixed

\* A second passes.
MakerTick ==
    /\ \E m \in DOMAIN maker.sinceQuote : maker.sinceQuote[m] < QuoteUpdateInterval
    /\ maker' = [maker EXCEPT !.sinceQuote =
                    [m \in DOMAIN @ |-> Min(@[m] + 1, QuoteUpdateInterval)]]
    /\ UNCHANGED << makerFixed, arg, ret, trade_logger, csv_file >>

MakerNext ==
    \/ \E market_id \in TrackedMarkets \cup { "m3" }, orderbook \in MakerBooks :
         OnOrderbookUpdate(market_id, "a1", orderbook)
    \/ MakerTick

MakerSpec == MakerInit /\ [][MakerNext]_vars

\* C25: in an update that quoted, a BUY trade is made exactly when buying
\* is not stopped and best_bid <= our bid < best_ask, a SELL trade exactly
\* when selling is not stopped and best_bid < our ask <= best_ask; a BUY is
\* of 10 tokens at our bid and a SELL of 10 tokens at our ask; an update
\* makes at most one trade of each action, and none when it did not quote.
TradesOf(action) == { i \in 1..Len(ret.trades) : ret.trades[i].action = action }
C25_FillsFollowTheQuotes ==
    arg.op = "on_orderbook_update" =>
        IF ret.outcome # "quoted" THEN ret.trades = << >>
        ELSE LET best_bid == arg.orderbook.bids[1].price * Cent
                 best_ask == arg.orderbook.asks[1].price * Cent
                 quotes == ret.quotes
             IN  /\ Cardinality(TradesOf("BUY")) <= 1
                 /\ Cardinality(TradesOf("SELL")) <= 1
                 /\ Len(ret.trades) = Cardinality(TradesOf("BUY")) + Cardinality(TradesOf("SELL"))
                 /\ TradesOf("BUY") # {} <=>
                        /\ ~quotes.should_stop_buying
                        /\ best_bid <= quotes.bid_price
                        /\ quotes.bid_price < best_ask
                 /\ TradesOf("SELL") # {} <=>
                        /\ ~quotes.should_stop_selling
                        /\ best_bid < quotes.ask_price
                        /\ quotes.ask_price <= best_ask
                 /\ \A i \in TradesOf("BUY") :
                        ret.trades[i].price = quotes.bid_price /\ ret.trades[i].size = 10
                 /\ \A i \in TradesOf("SELL") :
                        ret.trades[i].price = quotes.ask_price /\ ret.trades[i].size = 10
\* An update at the inventory limit that sold and, buying being stopped
\* with the bid inside the market, did not buy.
C25_Witness ==
    /\ arg.op = "on_orderbook_update"
    /\ ret.outcome = "quoted"
    /\ ret.quotes.should_stop_buying
    /\ ret.quotes.bid_price >= arg.orderbook.bids[1].price * Cent
    /\ ret.quotes.bid_price < arg.orderbook.asks[1].price * Cent
    /\ Len(ret.trades) = 1
    /\ ret.trades[1].action = "SELL"

\* C27: the simulated inventory of every market stays within the
\* strategy's max_inventory, in both directions.
C27_InventoryWithinLimit ==
    \A m \in DOMAIN trade_logger.inventories :
        Abs(trade_logger.inventories[m]) <= config.max_inventory

\* =============================================== component: OrderExecutor
\* Executions started in one run.
MaxExecutions == 3

\* Python's None where a text is expected.
NoText == "None"

\* What create_and_post_order gives back for one leg: the exchange's
\* response dictionary (filled; killed, with a status and a message; without
\* any key), or an exception raised while signing or posting.
Response(type, keys, success) ==
    [type |-> type, keys |-> keys, success |-> success,
     orderID |-> IF success THEN "order" ELSE "",
     status |-> "unmatched", errorMsg |-> "not filled"]
Responses ==
    { Response("dict", { "success", "orderID" }, TRUE),
      Response("dict", { "success", "orderID", "status", "errorMsg" }, FALSE),
      Response("dict", { "orderID" }, FALSE),
      Response("dict", {}, FALSE),
      Response("exception", {}, FALSE) }

\* response.get(key, default)
DictGet(response, key, default) ==
    IF key \in response.keys THEN response[key] ELSE default

\* Lines 208-233 for one leg: order id, filled, status and error.
ParseLeg(response) ==
    IF response.type = "dict" /\ response.keys # {}
    THEN LET success == DictGet(response, "success", FALSE)
         IN  [order_id |-> DictGet(response, "orderID", ""),
              filled |-> success,
              status |-> IF success THEN "filled"
                         ELSE DictGet(response, "status", "failed"),
              error |-> IF success THEN NoText
                        ELSE DictGet(response, "errorMsg", "Unknown error")]
    ELSE [order_id |-> NoText, filled |-> FALSE, status |-> "failed",
          error |-> IF response.type = "exception" THEN "exception" ELSE NoText]

ExecutionResult(success, yes, no) ==
    [success |-> success,
     yes_order_id |-> yes.order_id, no_order_id |-> no.order_id,
     yes_filled |-> yes.filled, no_filled |-> no.filled,
     yes_status |-> yes.status, no_status |-> no.status,
     yes_error |-> yes.error, no_error |-> no.error]

\* Variant: a result with any leg filled is a partial fill.
is_partial_fill_EitherLeg(result) ==
    result.yes_filled \/ result.no_filled

\* ExecutionResult.is_partial_fill
is_partial_fill(result) ==
    \/ result.yes_filled /\ ~result.no_filled
    \/ result.no_filled /\ ~result.yes_filled

\* The result of an execution that returns before any order is created.
NotSubmitted(status, error) ==
    LET leg == [order_id |-> NoText, filled |-> FALSE, status |-> status, error |-> error]
    IN  ExecutionResult(FALSE, leg, leg)

\* Variant: the leg that did not fill is handed to the client once more.
Submissions_RetryUnfilledLeg(execution, market, yes_response, no_response) ==
    << [execution |-> execution, token_id |-> market.yes_token_id],
       [execution |-> execution, token_id |-> market.no_token_id] >>
    \o (IF ParseLeg(yes_response).filled /\ ~ParseLeg(no_response).filled
        THEN << [execution |-> execution, token_id |-> market.no_token_id] >>
        ELSE << >>)

\* The calls of create_and_post_order one execution makes (lines 174-184):
\* the YES order and the NO order, gathered.
Submissions(execution, market, yes_response, no_response) ==
    << [execution |-> execution, token_id |-> market.yes_token_id],
       [execution |-> execution, token_id |-> market.no_token_id] >>

\* Lines 249-264: the counter a result is added to.
CountResult(executor1, result) ==
    IF result.success
    THEN [executor1 EXCEPT !.successful_executions = @ + 1]
    ELSE IF is_partial_fill(result)
    THEN [executor1 EXCEPT !.partial_fills = @ + 1]
    ELSE [executor1 EXCEPT !.failed_executions = @ + 1]

NoResult == [success |-> FALSE]

\* execute_arbitrage(opportunity): the executor after it, and the result
\* it returns unless it raises.  balance is the outcome of the balance
\* check, created that of building the order arguments.
execute_arbitrage(executor0, opportunity, balance, created, yes_response, no_response) ==
    LET started == [executor0 EXCEPT !.total_executions = @ + 1]
        yes == ParseLeg(yes_response)
        no == ParseLeg(no_response)
        result == ExecutionResult(yes.filled /\ no.filled, yes, no)
        submitted ==
            [started EXCEPT !.posted =
                @ \o Submissions(started.total_executions, opportunity.market,
                                 yes_response, no_response)]
    IN  IF balance = "raises"
        THEN [executor |-> started, raised |-> TRUE, result |-> NoResult]
        ELSE IF balance = "insufficient"
        THEN [executor |-> started, raised |-> FALSE,
              result |-> NotSubmitted("insufficient_balance", "Insufficient USDC balance")]
        ELSE IF ~created
        THEN [executor |-> started, raised |-> FALSE,
              result |-> NotSubmitted("order_creation_failed", "exception")]
        ELSE [executor |-> CountResult(submitted, result), raised |-> FALSE,
              result |-> result]

\* Opportunities the bot hands to the executor.
ExecOpportunities ==
    { [NoOpp EXCEPT !.market = m, !.yes_price = 48, !.no_price = 49, !.implied_sum = 97,
                    !.total_investment = FixedInvestmentAmount] : m \in KnownMarkets }

ExecInit ==
    /\ ws = "none"
    /\ running = FALSE
    /\ subscribed_assets = <<>>
    /\ subscribed_markets = <<>>
    /\ orderbooks = EmptyStore
    /\ on_book_update = FALSE
    /\ pc = "idle"
    /\ reconnect_delay = InitialReconnectDelay
    /\ sincePing = 0
    /\ stopPc = "idle"
    /\ io = "none"
    /\ opp = NoOpp
    /\ rest = <<>>
    /\ curMarket = ""
    /\ sinceOpp = [m \in { k.condition_id : k \in KnownMarkets } |-> OpportunityCooldown]
    /\ mutLog = <<>>
    /\ cbLog = <<>>
    /\ nframes = 0
    /\ fails = 0
    /\ subOnWire = <<>>
    /\ arg = NoCall
    /\ ret = NoCall
    /\ config = DefaultConfig
    /\ detected = NoneDetected
    /\ PaperIdle

execFixed == << wsVars, dispatchVars, running, on_book_update, pc, reconnect_delay,
                sincePing, stopPc, sinceOpp, nframes, fails, config, detected,
                repeated, trade_logger, csv_file, entry, maker, components,
                limiter, backoff >>

\* The bot's real-trading branch (bot.py lines 246-268): one call of
\* order_executor.execute_arbitrage(opportunity); the result, or the
\* exception, is only logged.
ExecuteArbitrage(opportunity, balance, created, yes_response, no_response) ==
    /\ executor.total_executions < MaxExecutions
    /\ LET r == execute_arbitrage(executor, opportunity, balance, created,
                                  yes_response, no_response)
       IN  /\ executor' = r.executor
           /\ ret' = [op |-> "execute_arbitrage", raised |-> r.raised, result |-> r.result]
    /\ arg' = [op |-> "execute_arbitrage", opportunity |-> opportunity,
               balance |-> balance, created |-> created,
               yes_response |-> yes_response, no_response |-> no_response,
               before |-> executor]
    /\ UNCHANGED execFixed

\* The courses an execution can take: the balance check raises or finds too
\* little, the order arguments cannot be built, or both orders are handed
\* to the client and each comes back with a response.
NoResponse == Response("none", {}, FALSE)
ExecCourses ==
    { << "raises", FALSE, NoResponse, NoResponse >>,
      << "insufficient", FALSE, NoResponse, NoResponse >>,
      << "sufficient", FALSE, NoResponse, NoResponse >> }
        \cup { << "sufficient", TRUE, yes_response, no_response >> :
                   yes_response \in Responses, no_response \in Responses }

ExecNext ==
    \E opportunity \in ExecOpportunities, course \in ExecCourses :
        ExecuteArbitrage(opportunity, course[1], course[2], course[3], course[4])

ExecSpec == ExecInit /\ [][ExecNext]_vars

\* C29: a result is a success exactly when the exchange filled both orders
\* and a partial fill exactly when it filled one of the two; no result is
\* both; and a partial fill adds one to partial_fills and nothing to
\* successful_executions or failed_executions.
ExchangeFilled(response) ==
    response.type = "dict" /\ "success" \in response.keys /\ response.success
Returned ==
    arg.op = "execute_arbitrage" /\ ~ret.raised
Posted ==
    Returned /\ arg.balance = "sufficient" /\ arg.created
C29_PartialFillIsDistinguished ==
    Returned =>
        LET yes_filled == Posted /\ ExchangeFilled(arg.yes_response)
            no_filled == Posted /\ ExchangeFilled(arg.no_response)
        IN  /\ ret.result.success <=> (yes_filled /\ no_filled)
            /\ is_partial_fill(ret.result) <=> (yes_filled # no_filled)
            /\ ~(ret.result.success /\ is_partial_fill(ret.result))
            /\ yes_filled # no_filled =>
                 /\ executor.partial_fills = arg.before.partial_fills + 1
                 /\ executor.successful_executions = arg.before.successful_executions
                 /\ executor.failed_executions = arg.before.failed_executions
C29_Witness ==
    /\ Posted
    /\ ExchangeFilled(arg.yes_response)
    /\ ~ExchangeFilled(arg.no_response)
    /\ is_partial_fill(ret.result)
    /\ executor.partial_fills = 2

\* C30: the orders of one execution (one opportunity) are none at all, or
\* the YES order followed by the NO order of its market, each once; and no
\* later step adds an order to an execution that has ended, whatever its
\* result was.
OrdersOf(log, execution) ==
    SelectSeq(log, LAMBDA order : order.execution = execution)
PairedOnce ==
    \A execution \in 1..executor.total_executions :
        LET orders == OrdersOf(executor.posted, execution)
        IN  \/ orders = << >>
            \/ \E market \in KnownMarkets :
                 orders = << [execution |-> execution, token_id |-> market.yes_token_id],
                             [execution |-> execution, token_id |-> market.no_token_id] >>
NoLaterOrder ==
    \A execution \in 1..executor.total_executions :
        OrdersOf(executor'.posted, execution) = OrdersOf(executor.posted, execution)
C30_NeverRetriesOneLeg ==
    [](PairedOnce) /\ [][NoLaterOrder]_vars
\* A partial fill has been followed by another execution.
C30_Witness ==
    /\ Posted
    /\ executor.total_executions = 2
    /\ executor.partial_fills >= 1
    /\ ~is_partial_fill(ret.result)
    /\ Len(executor.posted) = 4

\* ============================ component: the store, the ledger, their readers
\* The feed handler, the simulated fills, and the functions that read the
\* store or the inventory, called in any order in one process.
\* The Config of that process: trading and market-making parameters.
OwnerConfig == DefaultConfig @@ MmStrategy

OwnerInit ==
    /\ ws = "open"
    /\ running = TRUE
    /\ subscribed_assets = <<>>
    /\ subscribed_markets = <<>>
    /\ orderbooks = EmptyStore
    /\ on_book_update \in BOOLEAN
    /\ pc = "recv"
    /\ reconnect_delay = InitialReconnectDelay
    /\ sincePing = 0
    /\ stopPc = "idle"
    /\ io = "none"
    /\ opp = NoOpp
    /\ rest = <<>>
    /\ curMarket = ""
    /\ sinceOpp = [m \in { k.condition_id : k \in KnownMarkets } |-> OpportunityCooldown]
    /\ mutLog = <<>>
    /\ cbLog = <<>>
    /\ nframes = 0
    /\ fails = 0
    /\ subOnWire = <<>>
    /\ arg = NoCall
    /\ ret = NoCall
    /\ config = OwnerConfig
    /\ detected = NoneDetected
    /\ PaperIdle

\* ws_manager.get_best_prices(yes_token_id, no_token_id)
GetBestPrices(market) ==
    /\ arg' = [op |-> "get_best_prices", market |-> market]
    /\ ret' = [op |-> "get_best_prices",
               prices |-> get_best_prices(orderbooks, market.yes_token_id,
                                          market.no_token_id)]
    /\ UNCHANGED << engineFixed, orderbooks, sinceOpp, opp, detected >>

\* The frames the feed delivers here: two books, a price change and two
\* events of other kinds that carry levels all the same.
OwnerFrames ==
    { BookFrame("m1", "a1", <<L("0.45")>>, <<L("0.47"), L("0.50")>>),
      BookFrame("m1", "a2", <<L("0.46"), L("0.45")>>, <<L("0.49")>>),
      PriceChangeFrame("m1", <<Change("a1", "0", "0.47")>>),
      OtherFrame("last_trade_price"),
      OtherFrame("tick_size_change") }

OwnerNext ==
    \/ \E message \in OwnerFrames : HandleMessage(message)
    \/ \E market \in KnownMarkets : Check(market)
    \/ Validate
    \/ \E market \in KnownMarkets : GetBestPrices(market)
    \/ \E current_inventory \in { 0, MmMaxInventory } :
         CalculateQuotes(4800, 5000, current_inventory)
    \/ \E action \in { "BUY", "SELL" } : SimulateFill(action, "m1", 5000, FillSize)

OwnerSpec == OwnerInit /\ [][OwnerNext]_vars

\* C24: a step that changes the store is the feed handler handling a book
\* or a price_change event; a step that changes an inventory is
\* simulate_fill; and a call of check_arbitrage_opportunity,
\* validate_opportunity, get_best_prices or calculate_quotes changes
\* neither the store nor any inventory.
C24_SingleWriter ==
    [][ /\ orderbooks' # orderbooks =>
             /\ arg'.op = "handle_message"
             /\ arg'.message.event_type \in { "book", "price_change" }
        /\ trade_logger'.inventories # trade_logger.inventories =>
             arg'.op = "simulate_fill"
        /\ arg'.op \in { "check", "validate", "get_best_prices", "calculate_quotes" } =>
             /\ orderbooks' = orderbooks
             /\ trade_logger'.inventories = trade_logger.inventories
      ]_vars
\* With both books of a market stored and a position open, the four
\* readers have run: an opportunity was detected and validated, and the
\* last call quoted the market.
C24_Witness ==
    /\ get_best_prices(orderbooks, "a1", "a2").found
    /\ Get(trade_logger.inventories, "m1", 0) # 0
    /\ opp # NoOpp
    /\ arg.op = "calculate_quotes"
    /\ ret.reason = ""

\* ========================= further properties of the InventorySkewStrategy
\* C38: for 0 < best_bid < best_ask < 1 and any inventory, calculate_quotes
\* returns a quote without a reason; in particular never the reason
\* "Bid >= Ask after constraint adjustments".
ClampedTogether ==
    /\ SoundMarket
    /\ clamp_price(ret.fair_value - HalfSpread(arg.strategy))
         >= clamp_price(ret.fair_value + HalfSpread(arg.strategy))
C38_RecenteringSeparates ==
    SoundMarket => ret.reason = ""
\* Clamping put bid and ask on the same bound, and the quote is valid.
C38_Witness ==
    /\ arg.op = "calculate_quotes"
    /\ ret.reason = ""
    /\ ClampedTogether

\* C39: target_spread, skew_factor and max_inventory are positive and
\* min_spread <= target_spread <= max_spread < 1.
C39_ParametersStayValid ==
    /\ config.target_spread > 0
    /\ config.skew_factor > 0
    /\ config.max_inventory > 0
    /\ config.min_spread <= config.target_spread
    /\ config.target_spread <= config.max_spread
    /\ config.max_spread < One

\* ================================= further properties of the OrderExecutor
\* C40: total_executions = successful_executions + failed_executions
\* + partial_fills after every call of execute_arbitrage.
C40_CountersPartitionCalls ==
    executor.total_executions =
        executor.successful_executions + executor.failed_executions
            + executor.partial_fills

\* ======================================== component: subscribe_to_markets
\* subscribe_to_markets(markets) on a client whose socket is w: the connect
\* if there is no socket, then the send; connects and sends tell whether
\* each succeeds.  Nothing is recorded unless the frame was sent.
subscribe_to_markets(w, recorded, wire, markets, connects, sends) ==
    IF w = "none" /\ ~connects
    THEN [ws |-> w, recorded |-> recorded, wire |-> wire, raised |-> TRUE]
    ELSE IF ~sends
    THEN [ws |-> "closed", recorded |-> recorded,
          wire |-> IF w = "none" THEN << >> ELSE wire, raised |-> TRUE]
    ELSE [ws |-> "open",
          recorded |-> [assets |-> RecordedAssets(recorded.assets, LimitedAssets(markets)),
                        markets |-> LimitedMarkets(markets)],
          wire |-> LimitedAssets(markets), raised |-> FALSE]

SubscribeInit ==
    /\ ws = "none"
    /\ running = FALSE
    /\ subscribed_assets = <<>>
    /\ subscribed_markets = <<>>
    /\ orderbooks = EmptyStore
    /\ on_book_update = FALSE
    /\ pc = "idle"
    /\ reconnect_delay = InitialReconnectDelay
    /\ sincePing = 0
    /\ stopPc = "idle"
    /\ io = "none"
    /\ opp = NoOpp
    /\ rest = <<>>
    /\ curMarket = ""
    /\ sinceOpp = [m \in { k.condition_id : k \in KnownMarkets } |-> OpportunityCooldown]
    /\ mutLog = <<>>
    /\ cbLog = <<>>
    /\ nframes = 0
    /\ fails = 0
    /\ subOnWire = <<>>
    /\ arg = NoCall
    /\ ret = NoCall
    /\ config = DefaultConfig
    /\ detected = NoneDetected
    /\ PaperIdle

\* await ws_manager.subscribe_to_markets(markets), whatever becomes of it.
SubscribeToMarkets(markets, connects, sends) ==
    /\ ws = "closed" => ~sends
    /\ LET r == subscribe_to_markets(ws, [assets |-> subscribed_assets,
                                          markets |-> subscribed_markets],
                                     subOnWire, markets, connects, sends)
       IN  /\ ws' = r.ws
           /\ subscribed_assets' = r.recorded.assets
           /\ subscribed_markets' = r.recorded.markets
           /\ subOnWire' = r.wire
           /\ ret' = [op |-> "subscribe_to_markets", raised |-> r.raised]
    /\ arg' = [op |-> "subscribe_to_markets", markets |-> markets,
               connects |-> ws # "none" \/ connects, sends |-> sends,
               assets_before |-> subscribed_assets,
               markets_before |-> subscribed_markets]
    /\ UNCHANGED << running, orderbooks, on_book_update, pc, reconnect_delay,
                    sincePing, stopPc, io, opp, rest, curMarket, sinceOpp,
                    mutLog, cbLog, nframes, fails, config, detected, paperVars >>

\* The lists of markets handed to it here: those above, the same markets in
\* other orders, and a market that lacks its NO token.
OneSided == Market("m4", "a7", "")
SubscribeLists ==
    SubscribeRequests \cup { <<M3>>, <<M2, M1>>, <<M3, M1, M2>>, <<OneSided, M1>> }

SubscribeNext ==
    \/ \E markets \in SubscribeLists, connects \in BOOLEAN, sends \in BOOLEAN :
         SubscribeToMarkets(markets, connects, sends)
    \/ TransportClose

SubscribeSpec == SubscribeInit /\ [][SubscribeNext]_vars

\* C34: the recorded subscription never holds more than
\* 2 * max_ws_subscriptions asset ids; a call whose connect and send succeed
\* does not raise, however many asset ids it was given, and sends and
\* records the first 2 * max_ws_subscriptions of them (all, if fewer); a
\* call whose connect or send fails raises and leaves the recorded
\* subscription as it was.
C34_SubscriptionIsCappedAndAtomic ==
    /\ Len(subscribed_assets) <= 2 * MaxWsSubscriptions
    /\ arg.op = "subscribe_to_markets" =>
         IF arg.connects /\ arg.sends
         THEN /\ ~ret.raised
              /\ subscribed_assets = Take(CollectAssets(arg.markets), 2 * MaxWsSubscriptions)
              /\ subOnWire = subscribed_assets
         ELSE /\ ret.raised
              /\ subscribed_assets = arg.assets_before
              /\ subscribed_markets = arg.markets_before
\* A request of six asset ids was cut to four, and a later call failed
\* with that subscription recorded.
C34_Witness ==
    /\ arg.op = "subscribe_to_markets"
    /\ Len(CollectAssets(arg.markets)) > 2 * MaxWsSubscriptions
    /\ ret.raised
    /\ Len(arg.assets_before) = 2 * MaxWsSubscriptions
    /\ subscribed_assets = arg.assets_before

\* ------------------------------------ further properties of listen()

\* listen() went from one of its positions to another.
ListenConnected == pc = "connecting" /\ pc' \in { "resub", "pinging", "recv" }
ResubscribeSent == pc = "resub" /\ pc' \in { "pinging", "recv" }

\* C36: when listen() itself opens a connection and a subscription set is
\* recorded, its next step is the send of one subscribe frame, which puts
\* exactly the recorded asset ids on the new socket before the PING check and
\* the frame wait; with nothing recorded it goes straight on and the new
\* socket carries no subscribe frame; listen() sends a subscribe frame at no
\* other position.
C36_ListenReplaysSubscription ==
    [][ /\ ListenConnected =>
              /\ ws' = "open"
              /\ subOnWire' = <<>>
              /\ (pc' = "resub") <=> (subscribed_assets # <<>>)
        /\ ResubscribeSent =>
              /\ subscribed_assets # <<>>
              /\ subOnWire' = subscribed_assets
        /\ (pc' # pc /\ subOnWire' # subOnWire /\ subOnWire' # <<>>) => pc = "resub"
      ]_vars
C36_Witness ==
    /\ pc = "resub"
    /\ ws = "open"
    /\ subOnWire = <<>>
    /\ subscribed_assets = LimitedAssets(<<M1, M2>>)

\* C37: the reconnect delay of listen() is always between the initial and
\* the maximum delay; every received frame sets it back to the initial
\* delay; the first wait after a received frame lasts the initial delay.
C37_DelayBoundedAndReset ==
    /\ [](InitialReconnectDelay <= reconnect_delay /\ reconnect_delay <= MaxReconnectDelay)
    /\ [][ /\ nframes' # nframes => reconnect_delay' = InitialReconnectDelay
           /\ ( /\ pc' \in { "sleep_cc", "sleep_exc" }
                /\ pc \notin { "sleep_cc", "sleep_exc" }
                /\ fails' = 1 ) => reconnect_delay = InitialReconnectDelay
         ]_vars
C37_Witness ==
    /\ pc \in { "sleep_cc", "sleep_exc" }
    /\ nframes >= 1
    /\ fails = 1
    /\ reconnect_delay = InitialReconnectDelay
\* --------------------- further properties of the arbitrage bot's callback

\* The callback was invoked by the step and is suspended in its balance check.
AttemptBegins == Len(cbLog') > Len(cbLog) /\ io' = "balance"

\* The cooldown timers when no market is in its cooldown.
EveryCooldownOver == [m \in DOMAIN sinceOpp |-> OpportunityCooldown]

ModeConfig(paper_trading_mode, mm_paper_trading) ==
    DefaultConfig @@ [paper_trading_mode |-> paper_trading_mode,
                      mm_paper_trading |-> mm_paper_trading]

\* PaperTradeExecutor.__init__: no trade, a file with its header only.
NewPaperExecutor == [built |-> TRUE, trades |-> << >>, rows |-> << >>]

\* PolymarketArbitrageBot.initialize, lines 84-118: the paper executor and a
\* balance checker, or the balance checker, the exchange client and the
\* order executor.
bot_initialize(cfg) ==
    IF cfg.paper_trading_mode
    THEN [program |-> "arbitrage", initialized |-> TRUE,
          paper_trade_executor |-> NewPaperExecutor,
          balance_checker |-> TRUE, clob_client |-> FALSE, order_executor |-> FALSE]
    ELSE [program |-> "arbitrage", initialized |-> TRUE,
          paper_trade_executor |-> NoPaperExecutor,
          balance_checker |-> TRUE, clob_client |-> TRUE, order_executor |-> TRUE]

\* MarketMakerBot.initialize, lines 119-131: the exchange client is built
\* in real mode only.
maker_initialize(cfg) ==
    [program |-> "market_maker", initialized |-> TRUE,
     paper_trade_executor |-> NoPaperExecutor,
     balance_checker |-> ~cfg.mm_paper_trading, clob_client |-> ~cfg.mm_paper_trading,
     order_executor |-> FALSE]

\* The PaperTrade record of an opportunity (lines 137-153).
PaperTrade(opportunity) ==
    [condition_id |-> opportunity.market.condition_id,
     yes_token_id |-> opportunity.market.yes_token_id,
     no_token_id |-> opportunity.market.no_token_id,
     yes_price |-> opportunity.yes_price, no_price |-> opportunity.no_price,
     yes_size |-> opportunity.yes_size, no_size |-> opportunity.no_size,
     total_investment |-> opportunity.total_investment,
     implied_sum |-> opportunity.implied_sum, status |-> "simulated"]

\* One leg of the simulated result (lines 166-177).
PaperLeg(token_id) ==
    [order_id |-> "PAPER-" \o token_id, filled |-> TRUE, status |-> "filled",
     error |-> NoText]

\* Variant: the simulation reports the NO leg as not filled.
paper_execute_arbitrage_OneLeg(paper, opportunity, saved) ==
    [executor |-> paper,
     result |-> ExecutionResult(FALSE, PaperLeg(opportunity.market.yes_token_id),
                                [PaperLeg(opportunity.market.no_token_id)
                                    EXCEPT !.filled = FALSE, !.status = "failed"])]

\* PaperTradeExecutor.execute_arbitrage: the trade is appended to the file
\* (saved is FALSE when writing fails, which _save_trade only logs), kept
\* per market in self.trades, and a result with both legs filled returned.
paper_execute_arbitrage(paper, opportunity, saved) ==
    LET paper_trade == PaperTrade(opportunity)
    IN  [executor |-> [paper EXCEPT
                          !.rows = IF saved THEN Append(@, paper_trade) ELSE @,
                          !.trades = Put(@, opportunity.market.condition_id, paper_trade)],
         result |-> ExecutionResult(TRUE, PaperLeg(opportunity.market.yes_token_id),
                                    PaperLeg(opportunity.market.no_token_id))]

\* Variant: every opportunity goes to the order executor.
ExecutionBranch_AlwaysReal(cfg) == "real"

\* bot.py line 227: which executor the callback hands the opportunity to.
ExecutionBranch(cfg) == IF cfg.paper_trading_mode THEN "paper" ELSE "real"

\* Variant: the quotes are placed as two orders.
update_quotes_PlacesOrders(paper_trading, market_id, quotes) ==
    << [market_id |-> market_id, side |-> "BUY", price |-> quotes.bid_price],
       [market_id |-> market_id, side |-> "SELL", price |-> quotes.ask_price] >>

\* MarketMakerBot.update_quotes: the orders handed to the exchange client.
\* Paper trading logs the quotes (lines 302-309); real trading is not
\* implemented and logs a warning (lines 311-317).
update_quotes(paper_trading, market_id, quotes) == << >>

ModeInit ==
    /\ ws = "none"
    /\ running = FALSE
    /\ subscribed_assets = <<>>
    /\ subscribed_markets = <<>>
    /\ orderbooks = EmptyStore
    /\ on_book_update = FALSE
    /\ pc = "idle"
    /\ reconnect_delay = InitialReconnectDelay
    /\ sincePing = 0
    /\ stopPc = "idle"
    /\ io = "none"
    /\ opp = NoOpp
    /\ rest = <<>>
    /\ curMarket = ""
    /\ sinceOpp = [m \in { k.condition_id : k \in KnownMarkets } |-> OpportunityCooldown]
    /\ mutLog = <<>>
    /\ cbLog = <<>>
    /\ nframes = 0
    /\ fails = 0
    /\ subOnWire = <<>>
    /\ arg = NoCall
    /\ ret = NoCall
    /\ config \in { ModeConfig(paper, mm_paper) : paper \in BOOLEAN, mm_paper \in BOOLEAN }
    /\ detected = NoneDetected
    /\ repeated = NoRepeat
    /\ trade_logger = NewTradeLogger
    /\ csv_file = <<>>
    /\ executor = NewExecutor
    /\ entry = << >>
    /\ maker = FetchedMaker
    /\ components = NoComponents
    /\ limiter = NewLimiter
    /\ backoff = NoBackoff

modeFixed == << wsVars, dispatchVars, running, on_book_update, pc, reconnect_delay,
                sincePing, stopPc, sinceOpp, nframes, fails, config, detected,
                repeated, entry, limiter, backoff >>

\* One of the two programs starts: bot.py or market_maker_bot.py.
BotInitialize ==
    /\ ~components.initialized
    /\ components' = bot_initialize(config)
    /\ arg' = [op |-> "initialize"]
    /\ ret' = [op |-> "initialize"]
    /\ UNCHANGED << modeFixed, trade_logger, csv_file, executor, maker >>

MakerInitialize ==
    /\ ~components.initialized
    /\ components' = maker_initialize(config)
    /\ arg' = [op |-> "initialize"]
    /\ ret' = [op |-> "initialize"]
    /\ UNCHANGED << modeFixed, trade_logger, csv_file, executor, maker >>

\* The end of the arbitrage bot's callback (bot.py lines 226-268) for an
\* opportunity that passed its checks: the paper executor or the order
\* executor is awaited; the result, or an exception, is only logged.
BotExecutes(opportunity, saved, balance, created, yes_response, no_response) ==
    /\ components.program = "arbitrage"
    /\ executor.total_executions < MaxExecutions
    /\ Len(components.paper_trade_executor.rows) < MaxExecutions
    /\ arg' = [op |-> "execute_arbitrage", opportunity |-> opportunity, saved |-> saved,
               balance |-> balance, created |-> created,
               yes_response |-> yes_response, no_response |-> no_response,
               before |-> executor]
    /\ IF ExecutionBranch(config) = "paper"
       THEN LET r == paper_execute_arbitrage(components.paper_trade_executor,
                                             opportunity, saved)
            IN  /\ components' = [components EXCEPT !.paper_trade_executor = r.executor]
                /\ ret' = [op |-> "execute_arbitrage", by |-> "paper",
                           raised |-> FALSE, result |-> r.result]
                /\ UNCHANGED executor
       ELSE LET r == execute_arbitrage(executor, opportunity, balance, created,
                                       yes_response, no_response)
            IN  /\ executor' = r.executor
                /\ ret' = [op |-> "execute_arbitrage", by |-> "real",
                           raised |-> r.raised, result |-> r.result]
                /\ UNCHANGED components
    /\ UNCHANGED << modeFixed, trade_logger, csv_file, maker >>

\* The market maker's on_orderbook_update, update_quotes included.
MakerQuotes(market_id, orderbook) ==
    /\ components.program = "market_maker"
    /\ Len(csv_file) < MaxTrades
    /\ LET r == mm_on_orderbook_update(maker, MmStrategy, trade_logger, market_id, orderbook)
       IN  /\ maker' = r.bot
           /\ trade_logger' = r.logger
           /\ csv_file' = SaveTrades(csv_file, r.trades)
           /\ ret' = [op |-> "on_orderbook_update", outcome |-> r.outcome,
                      quotes |-> r.quotes, trades |-> r.trades,
                      orders |-> IF r.outcome = "quoted"
                                 THEN update_quotes(config.mm_paper_trading, market_id,
                                                    r.quotes)
                                 ELSE << >>]
    /\ arg' = [op |-> "on_orderbook_update", market_id |-> market_id,
               orderbook |-> orderbook]
    /\ UNCHANGED << modeFixed, executor, components >>

\* A second passes for the market maker.
ModeTick ==
    /\ components.program = "market_maker"
    /\ \E m \in DOMAIN maker.sinceQuote : maker.sinceQuote[m] < QuoteUpdateInterval
    /\ maker' = [maker EXCEPT !.sinceQuote =
                    [m \in DOMAIN @ |-> Min(@[m] + 1, QuoteUpdateInterval)]]
    /\ UNCHANGED << modeFixed, arg, ret, trade_logger, csv_file, executor, components >>

\* The courses of the order executor that matter here: it stops before any
\* order, or posts both orders, which the exchange fills or kills.
ModeCourses ==
    { << "insufficient", FALSE, NoResponse, NoResponse >>,
      << "sufficient", TRUE, Response("dict", { "success", "orderID" }, TRUE),
         Response("dict", { "success", "orderID" }, TRUE) >>,
      << "sufficient", TRUE, Response("dict", { "success", "orderID" }, TRUE),
         Response("dict", { "success", "orderID", "status", "errorMsg" }, FALSE) >> }

ModeNext ==
    \/ BotInitialize
    \/ MakerInitialize
    \/ \E opportunity \in ExecOpportunities, saved \in BOOLEAN, course \in ModeCourses :
         BotExecutes(opportunity, saved, course[1], course[2], course[3], course[4])
    \/ \E orderbook \in MakerBooks : MakerQuotes("m1", orderbook)
    \/ ModeTick

ModeSpec == ModeInit /\ [][ModeNext]_vars

\* C31: in paper trading mode the arbitrage bot builds neither the exchange
\* client nor the order executor, the order executor is never called and no
\* order is handed to the exchange; every opportunity the callback executes
\* goes to the paper executor, which returns a success with both legs
\* filled and remembers the trade; the market maker in paper mode builds no
\* exchange client and an update of its quotes hands no order to anyone.
C31_PaperModeSubmitsNothing ==
    /\ (components.program = "arbitrage" /\ config.paper_trading_mode) =>
          /\ ~components.clob_client
          /\ ~components.order_executor
          /\ executor = NewExecutor
          /\ arg.op = "execute_arbitrage" =>
                /\ ret.by = "paper"
                /\ ~ret.raised
                /\ ret.result.success
                /\ ret.result.yes_filled /\ ret.result.no_filled
                /\ ret.result.yes_status = "filled" /\ ret.result.no_status = "filled"
                /\ arg.opportunity.market.condition_id
                      \in DOMAIN components.paper_trade_executor.trades
    /\ (components.program = "market_maker" /\ config.mm_paper_trading) =>
          /\ ~components.clob_client
          /\ executor = NewExecutor
          /\ arg.op = "on_orderbook_update" => ret.orders = << >>
C31_Witness ==
    /\ components.program = "arbitrage"
    /\ config.paper_trading_mode
    /\ arg.op = "execute_arbitrage"
    /\ ret.result.success
    /\ Len(components.paper_trade_executor.rows) = 2
    /\ DOMAIN components.paper_trade_executor.trades = { "m1", "m2" }
\* ================================================ component: RateLimiter
\* RateLimiter(max_calls=2, period=3.0); times are whole seconds.
LimiterMaxCalls == 2
LimiterPeriod == 3
\* The clock stops and no further call is granted beyond these.
MaxClock == 6
MaxGrants == 5
\* The coroutines calling acquire() concurrently.
Callers == { 1, 2 }

\* Lines 49-50 and 68-69: while self.calls and self.calls[0] < now - period.
RECURSIVE Prune(_, _)
Prune(calls, now) ==
    IF calls # << >> /\ Head(calls) < now - LimiterPeriod
    THEN Prune(Tail(calls), now)
    ELSE calls

\* acquire() up to its sleep, entered with the lock free (lines 46-65):
\* either it goes to sleep holding the lock, or it records the call.
acquire_enter(l, caller) ==
    LET calls == Prune(l.calls, l.now)
        sleep_time == LimiterPeriod - (l.now - calls[1])
    IN  IF Len(calls) >= LimiterMaxCalls /\ sleep_time > 0
        THEN [l EXCEPT !.calls = calls, !.holder = caller, !.wake = l.now + sleep_time]
        ELSE [l EXCEPT !.calls = Append(calls, l.now), !.granted = @ + 1]

\* acquire() after its sleep (lines 67-72): prune again, record the call,
\* release the lock.
acquire_wake(l) ==
    [l EXCEPT !.calls = Append(Prune(l.calls, l.now), l.now), !.holder = 0,
              !.granted = @ + 1]

rateFixed == << wsVars, dispatchVars, running, on_book_update, pc, reconnect_delay,
                sincePing, stopPc, sinceOpp, nframes, fails, arg, ret, config,
                detected, repeated, trade_logger, csv_file, executor, entry, maker,
                components, backoff >>

\* A caller gets the lock and runs acquire() to its sleep or to its end;
\* while another caller sleeps inside the lock, nobody enters.
Acquire(caller) ==
    /\ limiter.holder = 0
    /\ limiter.granted < MaxGrants
    /\ limiter' = acquire_enter(limiter, caller)
    /\ UNCHANGED rateFixed

\* asyncio.sleep(sleep_time) ends, at the requested time or later.
AcquireWakes(caller) ==
    /\ limiter.holder = caller
    /\ limiter.now >= limiter.wake
    /\ limiter' = acquire_wake(limiter)
    /\ UNCHANGED rateFixed

\* A second passes.
ClockTick ==
    /\ limiter.now < MaxClock
    /\ limiter' = [limiter EXCEPT !.now = @ + 1]
    /\ UNCHANGED rateFixed

RateNext ==
    \/ \E caller \in Callers : Acquire(caller)
    \/ \E caller \in Callers : AcquireWakes(caller)
    \/ ClockTick

RateSpec == Init /\ [][RateNext]_vars

\* The recorded calls that are not older than the period: those the loop
\* of lines 49-50 keeps.
InWindow ==
    { i \in 1..Len(limiter.calls) : limiter.calls[i] >= limiter.now - LimiterPeriod }

\* C32: at any time at most max_calls recorded call times lie within the
\* last period seconds, also when a delayed caller wakes at the very moment
\* the oldest call is period seconds old.
C32_WindowHoldsAtMostMaxCalls == Cardinality(InWindow) <= LimiterMaxCalls

\* ================================== component: with_exponential_backoff
\* The largest max_retries tried.
MaxRetries == 3
BackoffBaseDelays == { 1, 4 }
BackoffMaxDelays == { 6, 30 }
\* What one call of func does: it returns a value or raises an exception.
FuncExceptions == { "e1", "e2" }

\* Variant: the delay grows without the limit of max_delay.
BackoffDelay_Unlimited(base_delay, max_delay, attempt) == base_delay * 2 ^ attempt

\* Line 230: delay = min(base_delay * (2 ** attempt), max_delay).
BackoffDelay(base_delay, max_delay, attempt) ==
    Min(base_delay * 2 ^ attempt, max_delay)

\* The call with_exponential_backoff(func, max_retries, base_delay,
\* max_delay) enters the loop and awaits func for the first time.
backoff_start(max_retries, base_delay, max_delay) ==
    [pc |-> "calling", max_retries |-> max_retries, base_delay |-> base_delay,
     max_delay |-> max_delay, attempt |-> 0, last_exception |-> NoText,
     calls |-> 1, waits |-> << >>, failed |-> << >>, result |-> NoText]

\* func raised e in attempt b.attempt (lines 225-241): sleep and go on, or
\* leave the loop and raise last_exception (line 244).
backoff_except(b, e) ==
    LET caught == [b EXCEPT !.last_exception = e, !.failed = Append(@, e)]
    IN  IF b.attempt < b.max_retries
        THEN [caught EXCEPT !.pc = "sleeping",
                            !.waits = Append(@, BackoffDelay(b.base_delay, b.max_delay,
                                                             b.attempt))]
        ELSE [caught EXCEPT !.pc = "raised"]

backoffFixed == << wsVars, dispatchVars, running, on_book_update, pc, reconnect_delay,
                   sincePing, stopPc, sinceOpp, nframes, fails, arg, ret, config,
                   detected, repeated, trade_logger, csv_file, executor, entry, maker,
                   components, limiter >>

BackoffStart(max_retries, base_delay, max_delay) ==
    /\ backoff.pc = "idle"
    /\ backoff' = backoff_start(max_retries, base_delay, max_delay)
    /\ UNCHANGED backoffFixed

\* return await func(*args, **kwargs), line 224.
FuncReturns ==
    /\ backoff.pc = "calling"
    /\ backoff' = [backoff EXCEPT !.pc = "returned", !.result = "value"]
    /\ UNCHANGED backoffFixed

FuncRaises(e) ==
    /\ backoff.pc = "calling"
    /\ backoff' = backoff_except(backoff, e)
    /\ UNCHANGED backoffFixed

\* asyncio.sleep(delay) ends: the next attempt of the loop calls func.
BackoffSleepEnds ==
    /\ backoff.pc = "sleeping"
    /\ backoff' = [backoff EXCEPT !.pc = "calling", !.attempt = @ + 1, !.calls = @ + 1]
    /\ UNCHANGED backoffFixed

BackoffNext ==
    \/ \E max_retries \in 0..MaxRetries, base_delay \in BackoffBaseDelays,
          max_delay \in BackoffMaxDelays :
         BackoffStart(max_retries, base_delay, max_delay)
    \/ FuncReturns
    \/ \E e \in FuncExceptions : FuncRaises(e)
    \/ BackoffSleepEnds

BackoffSpec == Init /\ [][BackoffNext]_vars

\* func and asyncio.sleep both come back.
BackoffFairSpec ==
    BackoffSpec /\ WF_vars(FuncReturns \/ \E e \in FuncExceptions : FuncRaises(e))
                /\ WF_vars(BackoffSleepEnds)

\* C33: func is called at most max_retries + 1 times; a call that returns
\* ends the run with its value and no further call; the wait after the
\* failed attempt k is min(base_delay * 2^k, max_delay), and there is none
\* after the last attempt; when every attempt failed the exception of the
\* last one is raised; every run that was started ends.
BackoffDone == backoff.pc \in { "returned", "raised" }
BackoffSafe ==
    backoff.pc # "idle" =>
        /\ backoff.calls <= backoff.max_retries + 1
        /\ backoff.calls = backoff.attempt + 1
        /\ \A k \in 1..Len(backoff.waits) :
              backoff.waits[k] = Min(backoff.base_delay * 2 ^ (k - 1), backoff.max_delay)
        /\ backoff.pc = "returned" =>
              /\ backoff.result = "value"
              /\ Len(backoff.failed) = backoff.calls - 1
              /\ Len(backoff.waits) = backoff.calls - 1
        /\ backoff.pc = "raised" =>
              /\ backoff.calls = backoff.max_retries + 1
              /\ Len(backoff.failed) = backoff.calls
              /\ Len(backoff.waits) = backoff.max_retries
              /\ backoff.last_exception = backoff.failed[Len(backoff.failed)]
C33_BackoffIsBoundedAndEnds ==
    /\ []BackoffSafe
    /\ [][BackoffDone => UNCHANGED backoff]_vars
    /\ (backoff.pc # "idle") ~> BackoffDone
C33_Witness ==
    /\ backoff.pc = "raised"
    /\ backoff.max_retries = 3
    /\ backoff.waits = << 4, 6, 6 >>
    /\ backoff.failed = << "e1", "e2", "e1", "e2" >>
====
